---- MODULE Spec2Model ----
(***************************************************************************)
(* Load balancer of src/src/load_balancer.cpp: a registry of servers and   *)
(* three distribution policies (Round Robin, Least Loaded, Weighted        *)
(* Optimization), with rebalance and server add/remove.                    *)
(*                                                                         *)
(* Loads and capacities are C++ ints.  performanceMultiplier is a double   *)
(* in [0,1]; it is held here in tenths (PmScale = 1.0), so that            *)
(* getEffectiveCapacity is capacity * multiplier in tenths of a load unit  *)
(* and the truncating cast of ratio * loadAmount is an integer division.   *)
(*                                                                         *)
(* Also modelled: the two distribution loops executed one iteration at a   *)
(* time (LoopSpec), the health simulator of src/src/server_health.cpp with *)
(* its per-server state machine, fault injections and callbacks            *)
(* (HealthSpec, LookupSpec; TickSpec ticks it for ever under fair draws),  *)
(* and the single-file program with its rotation index and its commands    *)
(* (MonoSpec), whose loads are doubles held as exact fractions.            *)
(***************************************************************************)
EXTENDS Integers, Sequences, FiniteSets, TLC

\* ---------------------------------------------------------------- bounds
MaxOps == 4
MaxOutageOps == 6
MaxWeightedOps == 5
MaxLoopAmount == 5
MaxHealthOps == 6
MaxLookupOps == 5
MaxAttachedOps == 5
MaxConcurrentUpdates == 2
MaxDegenerateOps == 3
MaxServers == 4

\* ------------------------------------------------------ program constants
DefaultCapacity == 100
InitialServers == 3
PmScale == 10

\* ------------------------------------------------------------ input sets
Capacities == {DefaultCapacity, 200}
LoadAmounts == {0, 1, 4, 6, 30, 350}
ServerLoadAmounts == {-5, 5, 120}
OutageLoadAmounts == {0, 4, 350}
WeightedLoadAmounts == {1, 30, 31}
LoopRegistrySizes == {1, 2}
LoopCapacities == {2, 3}
LoopCurrentLoads == {0, 1, 3, 4}
LoopMultipliers == {0, 5, PmScale}
LoopLoadAmounts == 0..MaxLoopAmount
HealthIds == {1, 2}
TimeSteps == {2, 5}
Draws == {5, 50, 80, 150, 500, 975, 990}
DegradationFactors == {-20, 5, 50, 95, 150}
HighLoadFactors == {50, 65}
Severities == {100, 200, 700}
Multipliers == {5, PmScale}
DegenerateRegistrySizes == 0..2
DegenerateCapacities == {0, 4}
DegenerateCurrentLoads == {0, 2}
DegenerateLoadAmounts == {0, 1, 3}
Algorithms == {"ROUND_ROBIN", "LEAST_LOADED", "WEIGHTED_OPTIMIZATION"}

VARIABLES servers, currentAlgorithm, nextServerId, last, opCount, budget,
          loop, health, now, hlast, healthSimulator, balancer, mlast

\* loop is the position and the locals of a distribution loop executed step
\* by step; health, now and hlast belong to the health simulator: its
\* records, the clock in seconds, and its most recent operation.
\* healthSimulator is the balancer's pointer to the simulator: TRUE once a
\* simulator is attached, FALSE while it is null.  balancer is the LoadBalancer
\* object of the single-file program and mlast its most recent operation.
simVars == <<loop, health, now, hlast, healthSimulator, balancer, mlast>>

vars == <<servers, currentAlgorithm, nextServerId, last, opCount, budget,
          loop, health, now, hlast, healthSimulator, balancer, mlast>>

\* ------------------------------------------------------------ Server
NewServer(id, capacity) ==
    [id |-> id, capacity |-> capacity, currentLoad |-> 0,
     performanceMultiplier |-> PmScale, online |-> TRUE]

\* The setter without its clamp.
setCurrentLoadUnclamped(s, load) == [s EXCEPT !.currentLoad = load]

setCurrentLoad(s, load) ==
    [s EXCEPT !.currentLoad = IF load < 0 THEN 0 ELSE load]

setPerformanceMultiplier(s, m) ==
    [s EXCEPT !.performanceMultiplier =
        IF m < 0 THEN 0 ELSE IF m > PmScale THEN PmScale ELSE m]

setOnline(s, b) == [s EXCEPT !.online = b]

getAvailableCapacity(s) ==
    IF ~s.online THEN 0 ELSE s.capacity - s.currentLoad

getEffectiveCapacity(s) ==
    IF ~s.online THEN 0 ELSE s.capacity * s.performanceMultiplier

\* ------------------------------------------------------------ helpers
Min(a, b) == IF a < b THEN a ELSE b

RECURSIVE SumLoads(_, _)
SumLoads(svs, i) ==
    IF i > Len(svs) THEN 0 ELSE svs[i].currentLoad + SumLoads(svs, i + 1)

getTotalLoad(svs) == SumLoads(svs, 1)

IndexOf(svs, serverId) ==
    IF \E i \in 1..Len(svs) : svs[i].id = serverId
    THEN CHOOSE i \in 1..Len(svs) :
            /\ svs[i].id = serverId
            /\ \A j \in 1..(i - 1) : svs[j].id # serverId
    ELSE 0

RemoveAt(svs, k) ==
    [i \in 1..(Len(svs) - 1) |-> IF i < k THEN svs[i] ELSE svs[i + 1]]

\* Result of one distribution call: the registry after it, the amount the
\* call leaves unassigned by its own accounting (the local remainingLoad;
\* the whole loadAmount on the early returns that print "No ... available"),
\* and the log of assignments [id, amount, avail] in the order made.
Outcome(svs, undist, assigns) ==
    [servers |-> svs, undistributed |-> undist, assigns |-> assigns]

\* ------------------------------------------------------------ Round Robin
isOnlineAlways(s) == TRUE

isOnline(s) == s.online

\* startIdx of distributeLoadRoundRobin, 1-based: the first online server,
\* Len(svs) + 1 when there is none.
FirstOnlineIdx(svs) ==
    IF \E i \in 1..Len(svs) : isOnline(svs[i])
    THEN CHOOSE i \in 1..Len(svs) :
            /\ isOnline(svs[i])
            /\ \A j \in 1..(i - 1) : ~isOnline(svs[j])
    ELSE Len(svs) + 1

\* Divisor of the static split (the code divides by servers.size()).
SplitCount(svs) == Len(svs)

RECURSIVE RoundRobinLoop(_, _, _, _, _, _)
RoundRobinLoop(svs, startIdx, i, baseLoadPerServer, remainingLoad, assigns) ==
    IF i >= Len(svs)
    THEN Outcome(svs, remainingLoad, assigns)
    ELSE LET idx == ((startIdx - 1 + i) % Len(svs)) + 1
         IN IF isOnline(svs[idx])
            THEN LET serverLoad == IF remainingLoad > 0
                                   THEN baseLoadPerServer + 1
                                   ELSE baseLoadPerServer
                     rem2 == IF remainingLoad > 0
                             THEN remainingLoad - 1 ELSE remainingLoad
                     s2 == setCurrentLoad(svs[idx],
                                          svs[idx].currentLoad + serverLoad)
                     entry == [id |-> svs[idx].id, amount |-> serverLoad,
                               avail |-> getAvailableCapacity(svs[idx])]
                 IN RoundRobinLoop([svs EXCEPT ![idx] = s2], startIdx, i + 1,
                                   baseLoadPerServer, rem2,
                                   Append(assigns, entry))
            ELSE RoundRobinLoop(svs, startIdx, i + 1, baseLoadPerServer,
                                remainingLoad, assigns)

\* Round Robin handing the whole remainder to the first online server.
distributeLoadRoundRobinRemainderFirst(svs, loadAmount) ==
    IF Len(svs) = 0 THEN Outcome(svs, loadAmount, <<>>)
    ELSE LET startIdx == FirstOnlineIdx(svs)
         IN IF startIdx > Len(svs) THEN Outcome(svs, loadAmount, <<>>)
            ELSE RoundRobinLoop(
                     [svs EXCEPT ![startIdx] =
                        setCurrentLoad(@, @.currentLoad
                                          + (loadAmount % SplitCount(svs)))],
                     startIdx, 0, loadAmount \div SplitCount(svs), 0, <<>>)

distributeLoadRoundRobin(svs, loadAmount) ==
    IF Len(svs) = 0 THEN Outcome(svs, loadAmount, <<>>)
    ELSE LET startIdx == FirstOnlineIdx(svs)
         IN IF startIdx > Len(svs) THEN Outcome(svs, loadAmount, <<>>)
            ELSE RoundRobinLoop(svs, startIdx, 0,
                                loadAmount \div SplitCount(svs),
                                loadAmount % SplitCount(svs), <<>>)

\* ------------------------------------------------------------ Least Loaded
\* The scan with >= in place of >: the last server of greatest availability
\* wins.
BestServerIdxLastTie(svs) ==
    LET cand == {i \in 1..Len(svs) :
                    isOnline(svs[i]) /\ getAvailableCapacity(svs[i]) > -1}
    IN IF cand = {} THEN 0
       ELSE CHOOSE i \in cand :
               /\ \A j \in cand : getAvailableCapacity(svs[j])
                                    <= getAvailableCapacity(svs[i])
               /\ \A j \in cand : j > i =>
                     getAvailableCapacity(svs[j]) < getAvailableCapacity(svs[i])

\* The scan of lines 223-234: bestAvailableCapacity starts at -1 and is
\* replaced only by a strictly greater value, so the first server in vector
\* order among those of greatest availability wins; 0 when no online server
\* has availability above -1.
BestServerIdx(svs) ==
    LET cand == {i \in 1..Len(svs) :
                    isOnline(svs[i]) /\ getAvailableCapacity(svs[i]) > -1}
    IN IF cand = {} THEN 0
       ELSE CHOOSE i \in cand :
               /\ \A j \in cand : getAvailableCapacity(svs[j])
                                    <= getAvailableCapacity(svs[i])
               /\ \A j \in cand : j < i =>
                     getAvailableCapacity(svs[j]) < getAvailableCapacity(svs[i])

LeastLoadedAmountUncapped(remainingLoad, bestAvailableCapacity) == remainingLoad

LeastLoadedAmount(remainingLoad, bestAvailableCapacity) ==
    Min(remainingLoad, bestAvailableCapacity)

RECURSIVE LeastLoadedLoop(_, _, _)
LeastLoadedLoop(svs, remainingLoad, assigns) ==
    IF remainingLoad <= 0 THEN Outcome(svs, remainingLoad, assigns)
    ELSE LET b == BestServerIdx(svs)
             bestAvailableCapacity ==
                 IF b = 0 THEN -1 ELSE getAvailableCapacity(svs[b])
         IN IF b = 0 \/ bestAvailableCapacity <= 0
            THEN Outcome(svs, remainingLoad, assigns)
            ELSE LET loadToAdd == LeastLoadedAmount(remainingLoad,
                                                    bestAvailableCapacity)
                     s2 == setCurrentLoad(svs[b],
                                          svs[b].currentLoad + loadToAdd)
                     entry == [id |-> svs[b].id, amount |-> loadToAdd,
                               avail |-> bestAvailableCapacity]
                 IN LeastLoadedLoop([svs EXCEPT ![b] = s2],
                                    remainingLoad - loadToAdd,
                                    Append(assigns, entry))

distributeLoadLeastLoaded(svs, loadAmount) ==
    IF Len(svs) = 0 THEN Outcome(svs, loadAmount, <<>>)
    ELSE LeastLoadedLoop(svs, loadAmount, <<>>)

\* ------------------------------------------------- Weighted Optimization
RECURSIVE SumEffective(_, _)
SumEffective(svs, i) ==
    IF i > Len(svs) THEN 0
    ELSE (IF isOnline(svs[i]) THEN getEffectiveCapacity(svs[i]) ELSE 0)
         + SumEffective(svs, i + 1)

\* The share computed from the raw capacity, leaving the performance
\* multiplier out of the numerator.
IdealLoadByCapacity(s, loadAmount, totalEffectiveCapacity) ==
    IF ~isOnline(s) THEN 0
    ELSE LET serverIdealLoad ==
                 (s.capacity * PmScale * loadAmount)
                     \div totalEffectiveCapacity
             availableCapacity == getAvailableCapacity(s)
         IN IF serverIdealLoad > availableCapacity
            THEN availableCapacity ELSE serverIdealLoad

\* idealLoads[i] of lines 273-291: the truncated proportional share, replaced
\* by getAvailableCapacity when the share is greater (the replacement is
\* negative for a server that holds more than its capacity).
IdealLoad(s, loadAmount, totalEffectiveCapacity) ==
    IF ~isOnline(s) THEN 0
    ELSE LET serverIdealLoad ==
                 (getEffectiveCapacity(s) * loadAmount)
                     \div totalEffectiveCapacity
             availableCapacity == getAvailableCapacity(s)
         IN IF serverIdealLoad > availableCapacity
            THEN availableCapacity ELSE serverIdealLoad

RECURSIVE SumSeq(_, _)
SumSeq(q, i) == IF i > Len(q) THEN 0 ELSE q[i] + SumSeq(q, i + 1)

\* One pass of the for loop of lines 298-307.
RECURSIVE RemainderPass(_, _, _, _, _)
RemainderPass(svs, idealLoads, i, remainingLoad, distributed) ==
    IF i > Len(svs) \/ remainingLoad <= 0
    THEN [idealLoads |-> idealLoads, remainingLoad |-> remainingLoad,
          distributed |-> distributed]
    ELSE IF isOnline(svs[i])
            /\ getAvailableCapacity(svs[i]) - idealLoads[i] > 0
         THEN RemainderPass(svs, [idealLoads EXCEPT ![i] = @ + 1], i + 1,
                            remainingLoad - 1, TRUE)
         ELSE RemainderPass(svs, idealLoads, i + 1, remainingLoad,
                            distributed)

\* The while loop of lines 295-310.
RECURSIVE RemainderLoop(_, _, _)
RemainderLoop(svs, idealLoads, remainingLoad) ==
    IF remainingLoad <= 0
    THEN [idealLoads |-> idealLoads, remainingLoad |-> remainingLoad]
    ELSE LET p == RemainderPass(svs, idealLoads, 1, remainingLoad, FALSE)
         IN IF ~p.distributed
            THEN [idealLoads |-> p.idealLoads,
                  remainingLoad |-> p.remainingLoad]
            ELSE RemainderLoop(svs, p.idealLoads, p.remainingLoad)

ApplyIdealLoads(svs, idealLoads) ==
    [i \in 1..Len(svs) |->
        IF idealLoads[i] > 0
        THEN setCurrentLoad(svs[i], svs[i].currentLoad + idealLoads[i])
        ELSE svs[i]]

WeightedAssigns(svs, idealLoads) ==
    [i \in 1..Len(svs) |->
        [id |-> svs[i].id, amount |-> idealLoads[i],
         avail |-> getAvailableCapacity(svs[i])]]

distributeLoadWeightedOptimization(svs, loadAmount) ==
    IF Len(svs) = 0 THEN Outcome(svs, loadAmount, <<>>)
    ELSE LET totalEffectiveCapacity == SumEffective(svs, 1)
         IN IF totalEffectiveCapacity <= 0
            THEN Outcome(svs, loadAmount, <<>>)
            ELSE LET ideal0 == [i \in 1..Len(svs) |->
                                   IdealLoad(svs[i], loadAmount,
                                             totalEffectiveCapacity)]
                     distributedLoad == SumSeq(ideal0, 1)
                     r == RemainderLoop(svs, ideal0,
                                        loadAmount - distributedLoad)
                 IN Outcome(ApplyIdealLoads(svs, r.idealLoads),
                            r.remainingLoad,
                            WeightedAssigns(svs, r.idealLoads))

\* ------------------------------------------------------------ LoadBalancer
addSystemLoad(svs, alg, loadAmount) ==
    CASE alg = "ROUND_ROBIN" -> distributeLoadRoundRobin(svs, loadAmount)
      [] alg = "LEAST_LOADED" -> distributeLoadLeastLoaded(svs, loadAmount)
      [] alg = "WEIGHTED_OPTIMIZATION" ->
             distributeLoadWeightedOptimization(svs, loadAmount)

rebalanceLoads(svs, alg) ==
    LET totalLoad == getTotalLoad(svs)
        zeroed == [i \in 1..Len(svs) |-> setCurrentLoad(svs[i], 0)]
    IN addSystemLoad(zeroed, alg, totalLoad)

\* The variant that passes the load to addSystemLoad while the server is
\* still in the vector and erases it afterwards.
InjectThenRemove(svs, alg, k) ==
    LET loadToRedistribute == svs[k].currentLoad
    IN IF Len(svs) > 1 /\ loadToRedistribute > 0
       THEN LET o == addSystemLoad(svs, alg, loadToRedistribute)
            IN [servers |-> RemoveAt(o.servers, k),
                undistributed |-> o.undistributed,
                assigns |-> o.assigns, injected |-> TRUE,
                injectedInto |-> {svs[i].id : i \in 1..Len(svs)}]
       ELSE [servers |-> RemoveAt(svs, k), undistributed |-> 0,
             assigns |-> <<>>, injected |-> FALSE, injectedInto |-> {}]

\* removeServer on a server found at index k: the load is read, the server
\* is erased, and the load is passed to addSystemLoad when servers remain
\* and the load is positive.  injectedInto is the registry membership that
\* addSystemLoad is called on ({} when it is not called).
removeServerFound(svs, alg, k) ==
    LET loadToRedistribute == svs[k].currentLoad
        rest == RemoveAt(svs, k)
    IN IF Len(rest) > 0 /\ loadToRedistribute > 0
       THEN LET o == addSystemLoad(rest, alg, loadToRedistribute)
            IN [servers |-> o.servers, undistributed |-> o.undistributed,
                assigns |-> o.assigns, injected |-> TRUE,
                injectedInto |-> {rest[i].id : i \in 1..Len(rest)}]
       ELSE [servers |-> rest, undistributed |-> 0, assigns |-> <<>>,
             injected |-> FALSE, injectedInto |-> {}]

\* addLoadToServer storing the requested amount whatever room is left.
addLoadToServerUncapped(svs, serverId, loadAmount) ==
    LET k == IndexOf(svs, serverId)
    IN IF k = 0 THEN svs
       ELSE IF ~isOnline(svs[k]) THEN svs
       ELSE [svs EXCEPT ![k] = setCurrentLoad(svs[k],
                                   svs[k].currentLoad + loadAmount)]

addLoadToServer(svs, serverId, loadAmount) ==
    LET k == IndexOf(svs, serverId)
    IN IF k = 0 THEN svs
       ELSE IF ~isOnline(svs[k]) THEN svs
       ELSE LET availableCapacity == getAvailableCapacity(svs[k])
                amount == IF loadAmount > availableCapacity
                          THEN availableCapacity ELSE loadAmount
            IN [svs EXCEPT ![k] = setCurrentLoad(svs[k],
                                        svs[k].currentLoad + amount)]

\* addServer numbering the new server by its position in the vector.
addServerByPosition(svs, id, capacity) ==
    Append(svs, NewServer(Len(svs) + 1, capacity))

addServer(svs, id, capacity) == Append(svs, NewServer(id, capacity))

\* ------------------------------------------------------------ state
\* last records the most recent operation: its name and arguments, the
\* registry before it (pre), the policy it ran under, and what the
\* distribution it performed left unassigned and assigned.  opCount counts
\* the operations performed and budget is the number a run may perform.
Record(op, pre, alg, loadAmount, serverId, found, undist, assigns,
       injected, injectedInto) ==
    [op |-> op, pre |-> pre, alg |-> alg, loadAmount |-> loadAmount,
     serverId |-> serverId, found |-> found, undistributed |-> undist,
     assigns |-> assigns, injected |-> injected,
     injectedInto |-> injectedInto]

\* hlast records the most recent simulator operation: its name and server
\* id, whether a record of that id was found, the records before it (pre),
\* the callbacks it invoked, and in draws its other argument or the random
\* values it drew.
HealthRecord(op, serverId, found, pre, calls, draws) ==
    [op |-> op, serverId |-> serverId, found |-> found, pre |-> pre,
     calls |-> calls, draws |-> draws]

\* The simulator as constructed: no records, no callbacks set.
NoSimulator ==
    [servers |-> <<>>, stateChangeCallback |-> FALSE,
     performanceUpdateCallback |-> FALSE]

\* Locals of a distribution call in progress: the registry on entry, the
\* requested amount, remainingLoad, the idealLoads vector, the index of the
\* for loop and its distributed flag.  seen logs what the call's isOnline()
\* tests returned so far, as pairs of a server index and the answer.
LoopState(pc, entry, loadAmount, remainingLoad, idealLoads, i, distributed) ==
    [pc |-> pc, entry |-> entry, loadAmount |-> loadAmount,
     remainingLoad |-> remainingLoad, idealLoads |-> idealLoads, i |-> i,
     distributed |-> distributed, seen |-> {}]

\* The answers of isOnline() for the servers at the given indices.
OnlineSeen(svs, idx) == {<<i, isOnline(svs[i])>> : i \in idx}

\* The single-file program is a separate executable: while the library is
\* exercised its LoadBalancer object does not exist.  The object is held as
\* its servers vector, selectedAlgorithm, currentServerIndex, and fault,
\* which tells whether an access past the end of the vector has happened
\* and how it ended.
MonoBalancer(svs, selectedAlgorithm, currentServerIndex, fault) ==
    [servers |-> svs, selectedAlgorithm |-> selectedAlgorithm,
     currentServerIndex |-> currentServerIndex, fault |-> fault]

MonoRecord(op, pre, load, serverId) ==
    [op |-> op, pre |-> pre, load |-> load, serverId |-> serverId]

MonoIdle ==
    /\ balancer = MonoBalancer(<<>>, 0, 0, "none")
    /\ mlast = MonoRecord("none", MonoBalancer(<<>>, 0, 0, "none"),
                          [num |-> 0, den |-> 1], 0)

\* The distribution loop is not being stepped and no health simulator is
\* attached.
SimIdle ==
    /\ loop = LoopState("idle", <<>>, 0, 0, <<>>, 0, FALSE)
    /\ health = NoSimulator
    /\ now = 0
    /\ hlast = HealthRecord("none", 0, FALSE, <<>>, <<>>, <<>>)
    /\ healthSimulator = FALSE
    /\ MonoIdle

RECURSIVE Construct(_, _)
Construct(svs, n) ==
    IF n = 0 THEN svs
    ELSE Construct(addServer(svs, Len(svs) + 1, DefaultCapacity), n - 1)

Init ==
    /\ servers = Construct(<<>>, InitialServers)
    /\ currentAlgorithm = "ROUND_ROBIN"
    /\ nextServerId = InitialServers + 1
    /\ last = Record("construct", <<>>, "ROUND_ROBIN", 0, 0, FALSE, 0, <<>>,
                     FALSE, {})
    /\ opCount = 0
    /\ budget = MaxOps
    /\ SimIdle

ServerIds == 1..nextServerId

AddSystemLoad(loadAmount) ==
    /\ opCount < budget
    /\ LET o == addSystemLoad(servers, currentAlgorithm, loadAmount)
       IN /\ servers' = o.servers
          /\ last' = Record("addSystemLoad", servers, currentAlgorithm,
                            loadAmount, 0, FALSE, o.undistributed, o.assigns,
                            FALSE, {})
    /\ opCount' = opCount + 1
    /\ UNCHANGED <<currentAlgorithm, nextServerId, budget>>
    /\ UNCHANGED simVars

AddLoadToServer(serverId, loadAmount) ==
    /\ opCount < budget
    /\ servers' = addLoadToServer(servers, serverId, loadAmount)
    /\ last' = Record("addLoadToServer", servers, currentAlgorithm,
                      loadAmount, serverId, IndexOf(servers, serverId) # 0,
                      0, <<>>, FALSE, {})
    /\ opCount' = opCount + 1
    /\ UNCHANGED <<currentAlgorithm, nextServerId, budget>>
    /\ UNCHANGED simVars

RebalanceLoads ==
    /\ opCount < budget
    /\ LET o == rebalanceLoads(servers, currentAlgorithm)
       IN /\ servers' = o.servers
          /\ last' = Record("rebalanceLoads", servers, currentAlgorithm,
                            getTotalLoad(servers), 0, FALSE, o.undistributed,
                            o.assigns, FALSE, {})
    /\ opCount' = opCount + 1
    /\ UNCHANGED <<currentAlgorithm, nextServerId, budget>>
    /\ UNCHANGED simVars

\* The block under `if (healthSimulator)` in addServer and in removeServer
\* holds only a comment, so neither call reaches the simulator.
AddServer(capacity) ==
    /\ opCount < budget
    /\ Len(servers) < MaxServers
    /\ servers' = addServer(servers, nextServerId, capacity)
    /\ nextServerId' = nextServerId + 1
    /\ last' = Record("addServer", servers, currentAlgorithm, 0,
                      nextServerId, FALSE, 0, <<>>, FALSE, {})
    /\ opCount' = opCount + 1
    /\ UNCHANGED <<currentAlgorithm, budget>>
    /\ UNCHANGED simVars

RemoveServer(serverId) ==
    /\ opCount < budget
    /\ LET k == IndexOf(servers, serverId)
       IN IF k = 0
          THEN /\ servers' = servers
               /\ last' = Record("removeServer", servers, currentAlgorithm,
                                 0, serverId, FALSE, 0, <<>>, FALSE, {})
          ELSE LET r == removeServerFound(servers, currentAlgorithm, k)
               IN /\ servers' = r.servers
                  /\ last' = Record("removeServer", servers,
                                    currentAlgorithm,
                                    servers[k].currentLoad, serverId, TRUE,
                                    r.undistributed, r.assigns, r.injected,
                                    r.injectedInto)
    /\ opCount' = opCount + 1
    /\ UNCHANGED <<currentAlgorithm, nextServerId, budget>>
    /\ UNCHANGED simVars

SetBalancingAlgorithm(algorithm) ==
    /\ opCount < budget
    /\ currentAlgorithm' = algorithm
    /\ last' = Record("setBalancingAlgorithm", servers, algorithm, 0, 0,
                      FALSE, 0, <<>>, FALSE, {})
    /\ opCount' = opCount + 1
    /\ UNCHANGED <<servers, nextServerId, budget>>
    /\ UNCHANGED simVars

\* getServer(serverId)->setOnline(b): the registry hands out its servers as
\* shared pointers, and the health callbacks of attachHealthSimulator are
\* written against this setter.
SetOnline(serverId, b) ==
    /\ opCount < budget
    /\ LET k == IndexOf(servers, serverId)
       IN /\ k # 0
          /\ servers' = [servers EXCEPT ![k] = setOnline(servers[k], b)]
    /\ last' = Record("setOnline", servers, currentAlgorithm, 0, serverId,
                      TRUE, 0, <<>>, FALSE, {})
    /\ opCount' = opCount + 1
    /\ UNCHANGED <<currentAlgorithm, nextServerId, budget>>
    /\ UNCHANGED simVars

SetPerformanceMultiplier(serverId, m) ==
    /\ opCount < budget
    /\ LET k == IndexOf(servers, serverId)
       IN /\ k # 0
          /\ servers' = [servers EXCEPT
                            ![k] = setPerformanceMultiplier(servers[k], m)]
    /\ last' = Record("setPerformanceMultiplier", servers, currentAlgorithm,
                      0, serverId, TRUE, 0, <<>>, FALSE, {})
    /\ opCount' = opCount + 1
    /\ UNCHANGED <<currentAlgorithm, nextServerId, budget>>
    /\ UNCHANGED simVars

Next ==
    \/ \E l \in LoadAmounts : AddSystemLoad(l)
    \/ \E id \in ServerIds : \E l \in ServerLoadAmounts : AddLoadToServer(id, l)
    \/ RebalanceLoads
    \/ \E c \in Capacities : AddServer(c)
    \/ \E id \in ServerIds : RemoveServer(id)
    \/ \E a \in Algorithms : SetBalancingAlgorithm(a)
    \/ \E id \in ServerIds : \E b \in BOOLEAN : SetOnline(id, b)
    \/ \E id \in ServerIds : \E m \in Multipliers :
          SetPerformanceMultiplier(id, m)

Spec == Init /\ [][Next]_vars

\* Outage runs: servers go offline or are removed, the policy is switched
\* and system load is added, over a longer run.
OutageInit ==
    /\ servers = Construct(<<>>, InitialServers)
    /\ currentAlgorithm = "ROUND_ROBIN"
    /\ nextServerId = InitialServers + 1
    /\ last = Record("construct", <<>>, "ROUND_ROBIN", 0, 0, FALSE, 0, <<>>,
                     FALSE, {})
    /\ opCount = 0
    /\ budget = MaxOutageOps
    /\ SimIdle

OutageNext ==
    \/ \E l \in OutageLoadAmounts : AddSystemLoad(l)
    \/ \E id \in ServerIds : RemoveServer(id)
    \/ \E a \in Algorithms : SetBalancingAlgorithm(a)
    \/ \E id \in ServerIds : SetOnline(id, FALSE)

OutageSpec == OutageInit /\ [][OutageNext]_vars

\* Weighted runs: the registry is reshaped (servers added, removed, taken
\* offline, slowed down), the policy is switched and system load is added.
WeightedInit ==
    /\ servers = Construct(<<>>, InitialServers)
    /\ currentAlgorithm = "ROUND_ROBIN"
    /\ nextServerId = InitialServers + 1
    /\ last = Record("construct", <<>>, "ROUND_ROBIN", 0, 0, FALSE, 0, <<>>,
                     FALSE, {})
    /\ opCount = 0
    /\ budget = MaxWeightedOps
    /\ SimIdle

WeightedNext ==
    \/ \E l \in WeightedLoadAmounts : AddSystemLoad(l)
    \/ \E c \in Capacities : AddServer(c)
    \/ \E id \in ServerIds : RemoveServer(id)
    \/ \E a \in Algorithms : SetBalancingAlgorithm(a)
    \/ \E id \in ServerIds : SetOnline(id, FALSE)
    \/ \E id \in ServerIds : \E m \in Multipliers :
          SetPerformanceMultiplier(id, m)

WeightedSpec == WeightedInit /\ [][WeightedNext]_vars

\* ------------------------------------------ distribution loops, stepwise
\* distributeLoadLeastLoaded and distributeLoadWeightedOptimization
\* executed one loop iteration at a time on a registry drawn from a small
\* set of shapes (servers online or offline, slowed down or stopped, empty,
\* partly loaded or holding more than their capacity).
LoopRegistries ==
    UNION {{[i \in 1..n |->
               [id |-> i, capacity |-> f[i].capacity,
                currentLoad |-> f[i].currentLoad,
                performanceMultiplier |-> f[i].performanceMultiplier,
                online |-> f[i].online]] :
            f \in [1..n -> [capacity : LoopCapacities,
                            currentLoad : LoopCurrentLoads,
                            performanceMultiplier : LoopMultipliers,
                            online : BOOLEAN]]} : n \in LoopRegistrySizes}

LoopInit ==
    /\ servers \in LoopRegistries
    /\ currentAlgorithm \in {"LEAST_LOADED", "WEIGHTED_OPTIMIZATION"}
    /\ nextServerId = Len(servers) + 1
    /\ last = Record("construct", <<>>, "ROUND_ROBIN", 0, 0, FALSE, 0, <<>>,
                     FALSE, {})
    /\ opCount = 0
    /\ budget = 0
    /\ \E l \in LoopLoadAmounts :
          loop = LoopState("start", servers, l, l, <<>>, 0, FALSE)
    /\ health = NoSimulator
    /\ now = 0
    /\ hlast = HealthRecord("none", 0, FALSE, <<>>, <<>>, <<>>)
    /\ healthSimulator = FALSE
    /\ MonoIdle

loopFixed == <<currentAlgorithm, nextServerId, last, opCount, budget,
               health, now, hlast, healthSimulator, balancer, mlast>>

\* Lines 212-218: the empty-registry return, then remainingLoad = loadAmount.
EnterLeastLoaded ==
    /\ loop.pc = "start"
    /\ currentAlgorithm = "LEAST_LOADED"
    /\ loop' = [loop EXCEPT !.pc = IF Len(servers) = 0 THEN "done"
                                   ELSE "ll_while"]
    /\ UNCHANGED servers
    /\ UNCHANGED loopFixed

\* The break test of lines 237-241, and the same test with < in place
\* of <=.
NoMoreCapacityStrict(b, bestAvailableCapacity) ==
    b = 0 \/ bestAvailableCapacity < 0

NoMoreCapacity(b, bestAvailableCapacity) ==
    b = 0 \/ bestAvailableCapacity <= 0

\* One evaluation of the while condition of line 221 and, when it holds,
\* one execution of its body (lines 222-246).
LeastLoadedIteration ==
    /\ loop.pc = "ll_while"
    /\ IF loop.remainingLoad <= 0
       THEN /\ loop' = [loop EXCEPT !.pc = "done"]
            /\ UNCHANGED servers
       ELSE LET b == BestServerIdx(servers)
                bestAvailableCapacity ==
                    IF b = 0 THEN -1 ELSE getAvailableCapacity(servers[b])
            IN IF NoMoreCapacity(b, bestAvailableCapacity)
               THEN /\ loop' = [loop EXCEPT
                                   !.pc = "done",
                                   !.seen = @ \cup OnlineSeen(servers,
                                                       DOMAIN servers)]
                    /\ UNCHANGED servers
               ELSE LET loadToAdd == LeastLoadedAmount(loop.remainingLoad,
                                                       bestAvailableCapacity)
                    IN /\ servers' =
                             [servers EXCEPT ![b] =
                                 setCurrentLoad(servers[b],
                                     servers[b].currentLoad + loadToAdd)]
                       /\ loop' = [loop EXCEPT
                                      !.remainingLoad = @ - loadToAdd,
                                      !.seen = @ \cup OnlineSeen(servers,
                                                          DOMAIN servers)]
    /\ UNCHANGED loopFixed

\* Lines 251-294: the two early returns, the idealLoads vector and
\* remainingLoad = loadAmount - distributedLoad.
EnterWeighted ==
    /\ loop.pc = "start"
    /\ currentAlgorithm = "WEIGHTED_OPTIMIZATION"
    /\ IF Len(servers) = 0 \/ SumEffective(servers, 1) <= 0
       THEN loop' = [loop EXCEPT !.pc = "done",
                                 !.seen = OnlineSeen(servers, DOMAIN servers)]
       ELSE LET ideal0 == [i \in 1..Len(servers) |->
                              IdealLoad(servers[i], loop.loadAmount,
                                        SumEffective(servers, 1))]
            IN loop' = [loop EXCEPT
                          !.pc = "wo_while",
                          !.idealLoads = ideal0,
                          !.remainingLoad = loop.loadAmount - SumSeq(ideal0, 1),
                          !.seen = OnlineSeen(servers, DOMAIN servers)]
    /\ UNCHANGED servers
    /\ UNCHANGED loopFixed

\* The while condition of line 295 and the start of a pass (line 296).
WeightedWhile ==
    /\ loop.pc = "wo_while"
    /\ loop' = IF loop.remainingLoad > 0
               THEN [loop EXCEPT !.pc = "wo_for", !.i = 1,
                                 !.distributed = FALSE]
               ELSE [loop EXCEPT !.pc = "wo_apply"]
    /\ UNCHANGED servers
    /\ UNCHANGED loopFixed

\* One evaluation of the for condition of line 298 and, when it holds, one
\* execution of its body (lines 299-306); when it fails, the break test of
\* line 309.
WeightedFor ==
    /\ loop.pc = "wo_for"
    /\ loop' =
          IF loop.i <= Len(servers) /\ loop.remainingLoad > 0
          THEN IF /\ isOnline(servers[loop.i])
                  /\ getAvailableCapacity(servers[loop.i])
                        - loop.idealLoads[loop.i] > 0
               THEN [loop EXCEPT !.idealLoads[loop.i] = @ + 1,
                                 !.remainingLoad = @ - 1,
                                 !.distributed = TRUE,
                                 !.i = @ + 1,
                                 !.seen = @ \cup OnlineSeen(servers, {loop.i})]
               ELSE [loop EXCEPT !.i = @ + 1,
                                 !.seen = @ \cup OnlineSeen(servers, {loop.i})]
          ELSE IF ~loop.distributed
               THEN [loop EXCEPT !.pc = "wo_apply"]
               ELSE [loop EXCEPT !.pc = "wo_while"]
    /\ UNCHANGED servers
    /\ UNCHANGED loopFixed

\* Lines 312-317: the calculated loads are applied.
WeightedApply ==
    /\ loop.pc = "wo_apply"
    /\ servers' = ApplyIdealLoads(servers, loop.idealLoads)
    /\ loop' = [loop EXCEPT !.pc = "done"]
    /\ UNCHANGED loopFixed

LoopNext ==
    \/ EnterLeastLoaded
    \/ LeastLoadedIteration
    \/ EnterWeighted
    \/ WeightedWhile
    \/ WeightedFor
    \/ WeightedApply

\* The calls run on one thread: a call that can take a step takes it.
LoopSpec == LoopInit /\ [][LoopNext]_vars /\ WF_vars(LoopNext)

\* Concurrent runs: while a distribution call is between two of its steps,
\* another thread calls Server::setOnline or setPerformanceMultiplier on a
\* server of the registry (getServer hands the servers out as shared
\* pointers; neither the setters nor the distribution take a lock).
ConcurrentInit ==
    /\ servers \in {r \in LoopRegistries :
                       \A i \in 1..Len(r) :
                          r[i].online /\ r[i].performanceMultiplier = PmScale}
    /\ currentAlgorithm \in {"LEAST_LOADED", "WEIGHTED_OPTIMIZATION"}
    /\ nextServerId = Len(servers) + 1
    /\ last = Record("construct", <<>>, "ROUND_ROBIN", 0, 0, FALSE, 0, <<>>,
                     FALSE, {})
    /\ opCount = 0
    /\ budget = MaxConcurrentUpdates
    /\ \E l \in LoopLoadAmounts :
          loop = LoopState("start", servers, l, l, <<>>, 0, FALSE)
    /\ health = NoSimulator
    /\ now = 0
    /\ hlast = HealthRecord("none", 0, FALSE, <<>>, <<>>, <<>>)
    /\ healthSimulator = FALSE
    /\ MonoIdle

ConcurrentSetOnline(serverId, b) ==
    /\ loop.pc \notin {"start", "done"}
    /\ SetOnline(serverId, b)

ConcurrentSetPerformanceMultiplier(serverId, m) ==
    /\ loop.pc \notin {"start", "done"}
    /\ SetPerformanceMultiplier(serverId, m)

ConcurrentNext ==
    \/ LoopNext
    \/ \E id \in ServerIds : \E b \in BOOLEAN : ConcurrentSetOnline(id, b)
    \/ \E id \in ServerIds : \E m \in LoopMultipliers :
          ConcurrentSetPerformanceMultiplier(id, m)

ConcurrentSpec == ConcurrentInit /\ [][ConcurrentNext]_vars

\* The stepwise execution ends where the policies' operators say.
LoopAgrees ==
    loop.pc = "done" =>
        LET o == addSystemLoad(loop.entry, currentAlgorithm, loop.loadAmount)
        IN /\ servers = o.servers
           /\ loop.remainingLoad = o.undistributed

\* ------------------------------------------------- ServerHealthSimulator
\* src/src/server_health.cpp.  Probabilities and random draws are held in
\* thousandths (ProbScale = 1.0) and healthScore in tenths (ScoreScale =
\* 1.0).  performanceMultiplier is multiplied by arbitrary factors, so it is
\* an exact fraction [num, den] in lowest terms; degradation factors are
\* given in hundredths (FactorScale = 1.0).  Time is in whole seconds.
ProbScale == 1000
ScoreScale == 10
FactorScale == 100
DwellSeconds == 5
DefaultFailureProbability == 10
DefaultRecoveryProbability == 200

States == {"HEALTHY", "DEGRADED", "CRITICAL", "OFFLINE"}

RECURSIVE GCD(_, _)
GCD(a, b) == IF b = 0 THEN a ELSE GCD(b, a % b)

Frac(n, d) == IF n = 0 THEN [num |-> 0, den |-> 1]
              ELSE [num |-> n \div GCD(n, d), den |-> d \div GCD(n, d)]

FracMul(a, b) == Frac(a.num * b.num, a.den * b.den)

\* a < n / d
FracLess(a, n, d) == a.num * d < n * a.den

\* std::find_if over the simulator's servers vector: the index of the
\* record of serverId, 0 for servers.end().
HealthIndexOf(hs, serverId) ==
    IF \E i \in 1..Len(hs) : hs[i].serverId = serverId
    THEN CHOOSE i \in 1..Len(hs) :
            /\ hs[i].serverId = serverId
            /\ \A j \in 1..(i - 1) : hs[j].serverId # serverId
    ELSE 0

\* What a call leaves behind: the records and the callbacks it invoked, in
\* order.
HealthOutcome(hs, calls) == [servers |-> hs, calls |-> calls]

\* The two guarded callback invocations that follow every change.
Notify(h, serverId, state, multiplier) ==
    (IF h.stateChangeCallback
     THEN <<[callback |-> "stateChange", serverId |-> serverId,
             state |-> state, multiplier |-> Frac(0, 1)]>>
     ELSE <<>>)
    \o (IF h.performanceUpdateCallback
        THEN <<[callback |-> "performanceUpdate", serverId |-> serverId,
                state |-> state, multiplier |-> multiplier]>>
        ELSE <<>>)

\* addServer without the lookup for an existing record.
healthAddServerUnchecked(h, serverId, t) ==
    Append(h.servers,
           [serverId |-> serverId, state |-> "HEALTHY",
            healthScore |-> ScoreScale,
            failureProbability |-> DefaultFailureProbability,
            recoveryProbability |-> DefaultRecoveryProbability,
            lastStateChange |-> t,
            performanceMultiplier |-> Frac(1, 1)])

healthAddServer(h, serverId, t) ==
    IF HealthIndexOf(h.servers, serverId) # 0 THEN h.servers
    ELSE Append(h.servers,
                [serverId |-> serverId, state |-> "HEALTHY",
                 healthScore |-> ScoreScale,
                 failureProbability |-> DefaultFailureProbability,
                 recoveryProbability |-> DefaultRecoveryProbability,
                 lastStateChange |-> t,
                 performanceMultiplier |-> Frac(1, 1)])

healthRemoveServer(h, serverId) ==
    SelectSeq(h.servers, LAMBDA sh : sh.serverId # serverId)

\* The state, healthScore and performanceMultiplier a record has after the
\* switch of updateServerStates ran on it with one random value.
\* The switch whose Critical recovery goes straight back to Healthy.
TickTransitionSkipsLevel(sh, randomValue) ==
    CASE sh.state = "HEALTHY" ->
           IF randomValue < sh.failureProbability
           THEN [sh EXCEPT !.state = "DEGRADED", !.healthScore = 7,
                           !.performanceMultiplier = Frac(7, 10)]
           ELSE sh
      [] sh.state = "DEGRADED" ->
           IF randomValue < sh.recoveryProbability
           THEN [sh EXCEPT !.state = "HEALTHY", !.healthScore = 10,
                           !.performanceMultiplier = Frac(1, 1)]
           ELSE IF randomValue > ProbScale - sh.failureProbability * 2
           THEN [sh EXCEPT !.state = "CRITICAL", !.healthScore = 3,
                           !.performanceMultiplier = Frac(4, 10)]
           ELSE sh
      [] sh.state = "CRITICAL" ->
           IF randomValue * 2 < sh.recoveryProbability
           THEN [sh EXCEPT !.state = "HEALTHY", !.healthScore = 10,
                           !.performanceMultiplier = Frac(1, 1)]
           ELSE IF randomValue > ProbScale - sh.failureProbability * 3
           THEN [sh EXCEPT !.state = "OFFLINE", !.healthScore = 0,
                           !.performanceMultiplier = Frac(0, 1)]
           ELSE sh
      [] sh.state = "OFFLINE" ->
           IF randomValue * 3 < sh.recoveryProbability
           THEN [sh EXCEPT !.state = "CRITICAL", !.healthScore = 2,
                           !.performanceMultiplier = Frac(3, 10)]
           ELSE sh

TickTransition(sh, randomValue) ==
    CASE sh.state = "HEALTHY" ->
           IF randomValue < sh.failureProbability
           THEN [sh EXCEPT !.state = "DEGRADED", !.healthScore = 7,
                           !.performanceMultiplier = Frac(7, 10)]
           ELSE sh
      [] sh.state = "DEGRADED" ->
           IF randomValue < sh.recoveryProbability
           THEN [sh EXCEPT !.state = "HEALTHY", !.healthScore = 10,
                           !.performanceMultiplier = Frac(1, 1)]
           ELSE IF randomValue > ProbScale - sh.failureProbability * 2
           THEN [sh EXCEPT !.state = "CRITICAL", !.healthScore = 3,
                           !.performanceMultiplier = Frac(4, 10)]
           ELSE sh
      [] sh.state = "CRITICAL" ->
           IF randomValue * 2 < sh.recoveryProbability
           THEN [sh EXCEPT !.state = "DEGRADED", !.healthScore = 6,
                           !.performanceMultiplier = Frac(6, 10)]
           ELSE IF randomValue > ProbScale - sh.failureProbability * 3
           THEN [sh EXCEPT !.state = "OFFLINE", !.healthScore = 0,
                           !.performanceMultiplier = Frac(0, 1)]
           ELSE sh
      [] sh.state = "OFFLINE" ->
           IF randomValue * 3 < sh.recoveryProbability
           THEN [sh EXCEPT !.state = "CRITICAL", !.healthScore = 2,
                           !.performanceMultiplier = Frac(3, 10)]
           ELSE sh

\* The dwell test with a threshold one second short.
EligibleAfterFour(sh, t) == t - sh.lastStateChange >= DwellSeconds - 1

\* The dwell test of lines 50-56.
Eligible(sh, t) == t - sh.lastStateChange >= DwellSeconds

\* The loop body with the cases of the switch falling through: the switch
\* runs a second time on the record it has just changed.
TickRecordTwice(sh, randomValue, t) ==
    IF ~Eligible(sh, t) THEN sh
    ELSE LET n == TickTransition(TickTransition(sh, randomValue),
                                 randomValue)
         IN IF n # sh THEN [n EXCEPT !.lastStateChange = t] ELSE sh

\* One iteration of the loop of updateServerStates on one record: the dwell
\* test, then the switch on one random value, then the timestamp.
TickRecord(sh, randomValue, t) ==
    IF ~Eligible(sh, t) THEN sh
    ELSE LET n == TickTransition(sh, randomValue)
         IN IF n # sh THEN [n EXCEPT !.lastStateChange = t] ELSE sh

\* The notifications of a tick that reports every record, changed or not.
RECURSIVE TickCallsOnEveryRecord(_, _, _, _)
TickCallsOnEveryRecord(h, before, after, i) ==
    IF i > Len(before) THEN <<>>
    ELSE Notify(h, after[i].serverId, after[i].state,
                after[i].performanceMultiplier)
         \o TickCallsOnEveryRecord(h, before, after, i + 1)

RECURSIVE TickCalls(_, _, _, _)
TickCalls(h, before, after, i) ==
    IF i > Len(before) THEN <<>>
    ELSE (IF after[i] # before[i]
          THEN Notify(h, after[i].serverId, after[i].state,
                      after[i].performanceMultiplier)
          ELSE <<>>)
         \o TickCalls(h, before, after, i + 1)

\* The tick that passes over every record that is Offline.
updateServerStatesSkippingOffline(h, t, draws) ==
    LET after == [i \in 1..Len(h.servers) |->
                     IF Eligible(h.servers[i], t)
                        /\ h.servers[i].state # "OFFLINE"
                     THEN TickRecord(h.servers[i], draws[i], t)
                     ELSE h.servers[i]]
    IN HealthOutcome(after, TickCalls(h, h.servers, after, 1))

\* draws[i] is the value dist(rng) returns for the i-th record; it is used
\* only when that record is eligible.
updateServerStates(h, t, draws) ==
    LET after == [i \in 1..Len(h.servers) |->
                     IF Eligible(h.servers[i], t)
                     THEN TickRecord(h.servers[i], draws[i], t)
                     ELSE h.servers[i]]
    IN HealthOutcome(after, TickCalls(h, h.servers, after, 1))

StateScore(state) ==
    CASE state = "HEALTHY" -> 10
      [] state = "DEGRADED" -> 7
      [] state = "CRITICAL" -> 3
      [] state = "OFFLINE" -> 0

StateMultiplier(state) ==
    CASE state = "HEALTHY" -> Frac(1, 1)
      [] state = "DEGRADED" -> Frac(7, 10)
      [] state = "CRITICAL" -> Frac(4, 10)
      [] state = "OFFLINE" -> Frac(0, 1)

\* setServerState with the callbacks invoked outside the found test.
setServerStateAlwaysNotifies(h, serverId, state, t) ==
    LET k == HealthIndexOf(h.servers, serverId)
    IN IF k = 0
       THEN HealthOutcome(h.servers,
                          Notify(h, serverId, state, StateMultiplier(state)))
       ELSE HealthOutcome(
                [h.servers EXCEPT ![k] =
                    [@ EXCEPT !.state = state, !.lastStateChange = t,
                              !.healthScore = StateScore(state),
                              !.performanceMultiplier =
                                  StateMultiplier(state)]],
                Notify(h, serverId, state, StateMultiplier(state)))

setServerState(h, serverId, state, t) ==
    LET k == HealthIndexOf(h.servers, serverId)
    IN IF k = 0 THEN HealthOutcome(h.servers, <<>>)
       ELSE HealthOutcome(
                [h.servers EXCEPT ![k] =
                    [@ EXCEPT !.state = state, !.lastStateChange = t,
                              !.healthScore = StateScore(state),
                              !.performanceMultiplier =
                                  StateMultiplier(state)]],
                Notify(h, serverId, state, StateMultiplier(state)))

\* The factor taken as given, without std::max / std::min.
ClampFactorAsGiven(degradationFactor) == degradationFactor

ClampFactor(degradationFactor) ==
    IF degradationFactor < 0 THEN 0
    ELSE IF degradationFactor > FactorScale THEN FactorScale
    ELSE degradationFactor

\* The record update that leaves the lowered multiplier in place when the
\* server goes offline.
DegradedRecordKeepsMultiplier(sh, degradationFactor, t) ==
    LET m == FracMul(sh.performanceMultiplier,
                     Frac(ClampFactor(degradationFactor), FactorScale))
    IN IF FracLess(m, 1, 10)
       THEN [sh EXCEPT !.state = "OFFLINE", !.healthScore = 0,
                       !.performanceMultiplier = m,
                       !.lastStateChange = t]
       ELSE IF FracLess(m, 5, 10)
       THEN [sh EXCEPT !.state = "CRITICAL", !.healthScore = 3,
                       !.performanceMultiplier = m, !.lastStateChange = t]
       ELSE IF FracLess(m, 9, 10)
       THEN [sh EXCEPT !.state = "DEGRADED", !.healthScore = 7,
                       !.performanceMultiplier = m, !.lastStateChange = t]
       ELSE [sh EXCEPT !.performanceMultiplier = m, !.lastStateChange = t]

\* Lines 256-277 on the record found: the clamped factor is multiplied in
\* and the state follows the new multiplier.
DegradedRecord(sh, degradationFactor, t) ==
    LET m == FracMul(sh.performanceMultiplier,
                     Frac(ClampFactor(degradationFactor), FactorScale))
    IN IF FracLess(m, 1, 10)
       THEN [sh EXCEPT !.state = "OFFLINE", !.healthScore = 0,
                       !.performanceMultiplier = Frac(0, 1),
                       !.lastStateChange = t]
       ELSE IF FracLess(m, 5, 10)
       THEN [sh EXCEPT !.state = "CRITICAL", !.healthScore = 3,
                       !.performanceMultiplier = m, !.lastStateChange = t]
       ELSE IF FracLess(m, 9, 10)
       THEN [sh EXCEPT !.state = "DEGRADED", !.healthScore = 7,
                       !.performanceMultiplier = m, !.lastStateChange = t]
       ELSE [sh EXCEPT !.performanceMultiplier = m, !.lastStateChange = t]

degradeServerPerformance(h, serverId, degradationFactor, t) ==
    LET k == HealthIndexOf(h.servers, serverId)
    IN IF k = 0 THEN HealthOutcome(h.servers, <<>>)
       ELSE IF h.servers[k].state = "OFFLINE"
       THEN HealthOutcome(h.servers, <<>>)
       ELSE LET sh == DegradedRecord(h.servers[k], degradationFactor, t)
            IN HealthOutcome([h.servers EXCEPT ![k] = sh],
                             Notify(h, serverId, sh.state,
                                    sh.performanceMultiplier))

recoverServer(h, serverId, t) ==
    LET k == HealthIndexOf(h.servers, serverId)
    IN IF k = 0 THEN HealthOutcome(h.servers, <<>>)
       ELSE HealthOutcome(
                [h.servers EXCEPT ![k] =
                    [@ EXCEPT !.state = "HEALTHY", !.healthScore = 10,
                              !.performanceMultiplier = Frac(1, 1),
                              !.lastStateChange = t]],
                Notify(h, serverId, "HEALTHY", Frac(1, 1)))

\* The severity bands closed at their upper ends.
simulateRandomFailureInclusive(h, index, severity, t) ==
    IF Len(h.servers) = 0 THEN HealthOutcome(h.servers, <<>>)
    ELSE setServerState(h, h.servers[index].serverId,
                        IF severity <= 200 THEN "DEGRADED"
                        ELSE IF severity <= 700 THEN "CRITICAL"
                        ELSE "OFFLINE", t)

\* index is the value of distInt(rng), counted from 1, and severity the
\* value of distSeverity(rng) in thousandths.
simulateRandomFailure(h, index, severity, t) ==
    IF Len(h.servers) = 0 THEN HealthOutcome(h.servers, <<>>)
    ELSE setServerState(h, h.servers[index].serverId,
                        IF severity < 200 THEN "DEGRADED"
                        ELSE IF severity < 700 THEN "CRITICAL"
                        ELSE "OFFLINE", t)

RECURSIVE simulateNetworkPartition(_, _, _)
simulateNetworkPartition(h, affectedServers, t) ==
    IF Len(affectedServers) = 0 THEN HealthOutcome(h.servers, <<>>)
    ELSE LET o == setServerState(h, Head(affectedServers), "OFFLINE", t)
             rest == simulateNetworkPartition(
                         [h EXCEPT !.servers = o.servers],
                         Tail(affectedServers), t)
         IN HealthOutcome(rest.servers, o.calls \o rest.calls)

\* degradationFactor is the value of dist(rng), drawn from [0.5, 0.8).
simulateHighLoad(h, serverId, degradationFactor, t) ==
    LET k == HealthIndexOf(h.servers, serverId)
    IN IF k = 0 THEN HealthOutcome(h.servers, <<>>)
       ELSE IF h.servers[k].state = "OFFLINE"
       THEN HealthOutcome(h.servers, <<>>)
       ELSE degradeServerPerformance(h, serverId, degradationFactor, t)

\* ---------------------------------------------------- simulator actions
balancerVars == <<servers, currentAlgorithm, nextServerId, last, loop,
                  healthSimulator, balancer, mlast>>

HealthStep(op, serverId, found, o, draws) ==
    /\ health' = [health EXCEPT !.servers = o.servers]
    /\ hlast' = HealthRecord(op, serverId, found, health.servers, o.calls,
                             draws)
    /\ opCount' = opCount + 1
    /\ UNCHANGED <<now, budget>>
    /\ UNCHANGED balancerVars

HealthAddServer(serverId) ==
    /\ opCount < budget
    /\ HealthStep("addServer", serverId,
                  HealthIndexOf(health.servers, serverId) # 0,
                  HealthOutcome(healthAddServer(health, serverId, now), <<>>),
                  <<>>)

HealthRemoveServer(serverId) ==
    /\ opCount < budget
    /\ HealthStep("removeServer", serverId,
                  HealthIndexOf(health.servers, serverId) # 0,
                  HealthOutcome(healthRemoveServer(health, serverId), <<>>),
                  <<>>)

EligibleIdx == {i \in 1..Len(health.servers) : Eligible(health.servers[i], now)}

UpdateServerStates ==
    /\ opCount < budget
    /\ \E draws \in [EligibleIdx -> Draws] :
          HealthStep("updateServerStates", 0, FALSE,
                     updateServerStates(health, now, draws), draws)

SetServerState(serverId, state) ==
    /\ opCount < budget
    /\ HealthStep("setServerState", serverId,
                  HealthIndexOf(health.servers, serverId) # 0,
                  setServerState(health, serverId, state, now), <<state>>)

DegradeServerPerformance(serverId, degradationFactor) ==
    /\ opCount < budget
    /\ HealthStep("degradeServerPerformance", serverId,
                  HealthIndexOf(health.servers, serverId) # 0,
                  degradeServerPerformance(health, serverId,
                                           degradationFactor, now),
                  <<degradationFactor>>)

RecoverServer(serverId) ==
    /\ opCount < budget
    /\ HealthStep("recoverServer", serverId,
                  HealthIndexOf(health.servers, serverId) # 0,
                  recoverServer(health, serverId, now), <<>>)

SimulateRandomFailure ==
    /\ opCount < budget
    /\ IF Len(health.servers) = 0
       THEN HealthStep("simulateRandomFailure", 0, FALSE,
                       simulateRandomFailure(health, 0, 0, now), <<>>)
       ELSE \E index \in 1..Len(health.servers) :
               \E severity \in Severities :
                  HealthStep("simulateRandomFailure",
                             health.servers[index].serverId, TRUE,
                             simulateRandomFailure(health, index, severity,
                                                   now),
                             <<index, severity>>)

SimulateNetworkPartition(affectedServers) ==
    /\ opCount < budget
    /\ HealthStep("simulateNetworkPartition", 0, FALSE,
                  simulateNetworkPartition(health, affectedServers, now),
                  affectedServers)

SimulateHighLoad(serverId, degradationFactor) ==
    /\ opCount < budget
    /\ HealthStep("simulateHighLoad", serverId,
                  HealthIndexOf(health.servers, serverId) # 0,
                  simulateHighLoad(health, serverId, degradationFactor, now),
                  <<degradationFactor>>)

SetStateChangeCallback ==
    /\ opCount < budget
    /\ health' = [health EXCEPT !.stateChangeCallback = TRUE]
    /\ hlast' = HealthRecord("setStateChangeCallback", 0, FALSE,
                             health.servers, <<>>, <<>>)
    /\ opCount' = opCount + 1
    /\ UNCHANGED <<now, budget>>
    /\ UNCHANGED balancerVars

SetPerformanceUpdateCallback ==
    /\ opCount < budget
    /\ health' = [health EXCEPT !.performanceUpdateCallback = TRUE]
    /\ hlast' = HealthRecord("setPerformanceUpdateCallback", 0, FALSE,
                             health.servers, <<>>, <<>>)
    /\ opCount' = opCount + 1
    /\ UNCHANGED <<now, budget>>
    /\ UNCHANGED balancerVars

\* The system clock moves on between two calls.
Advance(seconds) ==
    /\ opCount < budget
    /\ now' = now + seconds
    /\ hlast' = HealthRecord("advance", 0, FALSE, health.servers, <<>>,
                             <<seconds>>)
    /\ opCount' = opCount + 1
    /\ UNCHANGED <<health, budget>>
    /\ UNCHANGED balancerVars

PartitionLists == {<<1>>, <<2, 1>>}

HealthInit ==
    /\ servers = Construct(<<>>, InitialServers)
    /\ currentAlgorithm = "ROUND_ROBIN"
    /\ nextServerId = InitialServers + 1
    /\ last = Record("construct", <<>>, "ROUND_ROBIN", 0, 0, FALSE, 0, <<>>,
                     FALSE, {})
    /\ opCount = 0
    /\ budget = MaxHealthOps
    /\ loop = LoopState("idle", <<>>, 0, 0, <<>>, 0, FALSE)
    /\ health = NoSimulator
    /\ now = 0
    /\ hlast = HealthRecord("none", 0, FALSE, <<>>, <<>>, <<>>)
    /\ healthSimulator = FALSE
    /\ MonoIdle

HealthNext ==
    \/ \E id \in HealthIds : HealthAddServer(id)
    \/ \E id \in HealthIds : HealthRemoveServer(id)
    \/ UpdateServerStates
    \/ \E id \in HealthIds : \E st \in States : SetServerState(id, st)
    \/ \E id \in HealthIds : \E f \in DegradationFactors :
          DegradeServerPerformance(id, f)
    \/ \E id \in HealthIds : RecoverServer(id)
    \/ SimulateRandomFailure
    \/ \E a \in PartitionLists : SimulateNetworkPartition(a)
    \/ \E id \in HealthIds : \E f \in HighLoadFactors :
          SimulateHighLoad(id, f)
    \/ SetStateChangeCallback
    \/ SetPerformanceUpdateCallback
    \/ \E dt \in TimeSteps : Advance(dt)

HealthSpec == HealthInit /\ [][HealthNext]_vars

\* Lookup runs: the balancer and the simulator side by side, called by
\* server id, with records and servers added and removed in between.
LookupInit ==
    /\ servers = Construct(<<>>, InitialServers)
    /\ currentAlgorithm = "ROUND_ROBIN"
    /\ nextServerId = InitialServers + 1
    /\ last = Record("construct", <<>>, "ROUND_ROBIN", 0, 0, FALSE, 0, <<>>,
                     FALSE, {})
    /\ opCount = 0
    /\ budget = MaxLookupOps
    /\ loop = LoopState("idle", <<>>, 0, 0, <<>>, 0, FALSE)
    /\ health = NoSimulator
    /\ now = 0
    /\ hlast = HealthRecord("none", 0, FALSE, <<>>, <<>>, <<>>)
    /\ healthSimulator = FALSE
    /\ MonoIdle

LookupNext ==
    \/ \E id \in ServerIds : RemoveServer(id)
    \/ \E id \in ServerIds : \E l \in ServerLoadAmounts : AddLoadToServer(id, l)
    \/ \E id \in HealthIds : HealthAddServer(id)
    \/ \E id \in HealthIds : HealthRemoveServer(id)
    \/ \E id \in HealthIds : \E st \in States : SetServerState(id, st)
    \/ \E id \in HealthIds : \E f \in DegradationFactors :
          DegradeServerPerformance(id, f)
    \/ \E id \in HealthIds : RecoverServer(id)
    \/ \E id \in HealthIds : \E f \in HighLoadFactors :
          SimulateHighLoad(id, f)
    \/ SetStateChangeCallback
    \/ SetPerformanceUpdateCallback

LookupSpec == LookupInit /\ [][LookupNext]_vars

\* attachHealthSimulator(simObj): the pointer is stored.  The loop that
\* would register the existing servers has an empty body and the two
\* callback registrations are inside a comment, so the simulator itself is
\* left as it was.  simObj is FALSE for a null pointer.
AttachHealthSimulator(simObj) ==
    /\ opCount < budget
    /\ healthSimulator' = simObj
    /\ last' = Record("attachHealthSimulator", servers, currentAlgorithm, 0,
                      0, FALSE, 0, <<>>, FALSE, {})
    /\ opCount' = opCount + 1
    /\ UNCHANGED <<servers, currentAlgorithm, nextServerId, budget>>
    /\ UNCHANGED <<loop, health, now, hlast, balancer, mlast>>

\* Attached runs: a simulator is attached to the balancer, servers are
\* added and removed on the balancer, and the simulator is driven through
\* its own interface and by ticks.
AttachedInit ==
    /\ servers = Construct(<<>>, InitialServers)
    /\ currentAlgorithm = "ROUND_ROBIN"
    /\ nextServerId = InitialServers + 1
    /\ last = Record("construct", <<>>, "ROUND_ROBIN", 0, 0, FALSE, 0, <<>>,
                     FALSE, {})
    /\ opCount = 0
    /\ budget = MaxAttachedOps
    /\ SimIdle

AttachedNext ==
    \/ \E simObj \in BOOLEAN : AttachHealthSimulator(simObj)
    \/ \E c \in Capacities : AddServer(c)
    \/ \E id \in ServerIds : RemoveServer(id)
    \/ \E id \in HealthIds : HealthAddServer(id)
    \/ \E id \in HealthIds : HealthRemoveServer(id)
    \/ \E id \in HealthIds : \E st \in States : SetServerState(id, st)
    \/ \E id \in HealthIds : RecoverServer(id)
    \/ UpdateServerStates
    \/ \E dt \in TimeSteps : Advance(dt)

AttachedSpec == AttachedInit /\ [][AttachedNext]_vars

\* ------------------------------------------ ratios and percentages
\* getLoadPercentage, calculateLoadVariance and the system load percentage
\* of visualizeLoads are doubles; they are exact fractions here.
FracAdd(a, b) == Frac(a.num * b.den + b.num * a.den, a.den * b.den)

FracSub(a, b) == Frac(a.num * b.den - b.num * a.den, a.den * b.den)

getLoadPercentage(s) ==
    IF s.capacity = 0 THEN Frac(0, 1)
    ELSE Frac(s.currentLoad * 100, s.capacity)

getTotalCapacity(svs) ==
    LET RECURSIVE Total(_)
        Total(i) == IF i > Len(svs) THEN 0
                    ELSE (IF isOnline(svs[i]) THEN svs[i].capacity ELSE 0)
                         + Total(i + 1)
    IN Total(1)

calculateLoadVariance(svs) ==
    IF Len(svs) = 0 THEN Frac(0, 1)
    ELSE LET onlineCount ==
                 Cardinality({i \in 1..Len(svs) : isOnline(svs[i])})
             RECURSIVE TotalPercentage(_)
             TotalPercentage(i) ==
                 IF i > Len(svs) THEN Frac(0, 1)
                 ELSE IF isOnline(svs[i])
                 THEN FracAdd(getLoadPercentage(svs[i]),
                              TotalPercentage(i + 1))
                 ELSE TotalPercentage(i + 1)
         IN IF onlineCount = 0 THEN Frac(0, 1)
            ELSE LET total == TotalPercentage(1)
                     meanPercentage ==
                         Frac(total.num, total.den * onlineCount)
                     RECURSIVE Variance(_)
                     Variance(i) ==
                         IF i > Len(svs) THEN Frac(0, 1)
                         ELSE IF isOnline(svs[i])
                         THEN LET diff == FracSub(
                                      getLoadPercentage(svs[i]),
                                      meanPercentage)
                              IN FracAdd(FracMul(diff, diff),
                                         Variance(i + 1))
                         ELSE Variance(i + 1)
                     variance == Variance(1)
                 IN Frac(variance.num, variance.den * onlineCount)

systemLoadPercentage(svs) ==
    IF getTotalCapacity(svs) > 0
    THEN Frac(getTotalLoad(svs) * 100, getTotalCapacity(svs))
    ELSE Frac(0, 1)

\* visualizeLoads(): the registry is read and the figures it prints are
\* kept in last.
VisualizeLoads ==
    /\ opCount < budget
    /\ last' = [op |-> "visualizeLoads", pre |-> servers,
                alg |-> currentAlgorithm,
                percentages |-> [i \in 1..Len(servers) |->
                                   getLoadPercentage(servers[i])],
                variance |-> calculateLoadVariance(servers),
                systemLoadPercentage |-> systemLoadPercentage(servers)]
    /\ opCount' = opCount + 1
    /\ UNCHANGED <<servers, currentAlgorithm, nextServerId, budget>>
    /\ UNCHANGED simVars

\* Degenerate runs: the registry is empty, or holds servers of capacity 0
\* (addServer(0)) or servers that are offline, next to ordinary ones; load
\* is added, the loads are rebalanced and the figures are computed.
DegenerateRegistries ==
    UNION {{[i \in 1..n |->
               [id |-> i, capacity |-> f[i].capacity,
                currentLoad |-> f[i].currentLoad,
                performanceMultiplier |-> PmScale,
                online |-> f[i].online]] :
            f \in [1..n -> [capacity : DegenerateCapacities,
                            currentLoad : DegenerateCurrentLoads,
                            online : BOOLEAN]]} :
           n \in DegenerateRegistrySizes}

DegenerateInit ==
    /\ servers \in DegenerateRegistries
    /\ currentAlgorithm \in Algorithms
    /\ nextServerId = Len(servers) + 1
    /\ last = Record("construct", <<>>, "ROUND_ROBIN", 0, 0, FALSE, 0, <<>>,
                     FALSE, {})
    /\ opCount = 0
    /\ budget = MaxDegenerateOps
    /\ SimIdle

DegenerateNext ==
    \/ \E l \in DegenerateLoadAmounts : AddSystemLoad(l)
    \/ RebalanceLoads
    \/ VisualizeLoads

DegenerateSpec == DegenerateInit /\ [][DegenerateNext]_vars

\* ------------------------------------------------ ticks without end
\* The simulator holding one record per id of HealthIds and ticked for
\* ever.  updateServerStates reads the clock only to take the difference
\* now - lastStateChange and to compare it with 5.0, so the clock is held
\* at DwellSeconds and the passing of time moves every lastStateChange
\* back instead, never below 0: a difference of 5 seconds or more stays
\* one.  LowDraw and HighDraw are random values under every recovery
\* threshold and over every failure threshold of the default
\* probabilities.
LowDraw == 5
HighDraw == 990

RECURSIVE AddAll(_, _, _)
AddAll(h, ids, t) ==
    IF ids = {} THEN h
    ELSE LET id == CHOOSE x \in ids : \A y \in ids : x <= y
         IN AddAll([h EXCEPT !.servers = healthAddServer(h, id, t)],
                   ids \ {id}, t)

TickInit ==
    /\ servers = Construct(<<>>, InitialServers)
    /\ currentAlgorithm = "ROUND_ROBIN"
    /\ nextServerId = InitialServers + 1
    /\ last = Record("construct", <<>>, "ROUND_ROBIN", 0, 0, FALSE, 0, <<>>,
                     FALSE, {})
    /\ opCount = 0
    /\ budget = 0
    /\ loop = LoopState("idle", <<>>, 0, 0, <<>>, 0, FALSE)
    /\ health = AddAll(NoSimulator, HealthIds, DwellSeconds)
    /\ now = DwellSeconds
    /\ hlast = HealthRecord("none", 0, FALSE, <<>>, <<>>, <<>>)
    /\ healthSimulator = FALSE
    /\ MonoIdle

Elapse(seconds) ==
    /\ health' = [health EXCEPT !.servers =
          [i \in 1..Len(health.servers) |->
              [health.servers[i] EXCEPT !.lastStateChange =
                  IF @ < seconds THEN 0 ELSE @ - seconds]]]
    /\ hlast' = HealthRecord("elapse", 0, FALSE, health.servers, <<>>,
                             <<seconds>>)
    /\ UNCHANGED <<now, opCount, budget>>
    /\ UNCHANGED balancerVars

Tick(draws) ==
    LET o == updateServerStates(health, now, draws)
    IN /\ health' = [health EXCEPT !.servers = o.servers]
       /\ hlast' = HealthRecord("updateServerStates", 0, FALSE,
                                health.servers, o.calls, draws)
       /\ UNCHANGED <<now, opCount, budget>>
       /\ UNCHANGED balancerVars

\* A tick that finds record i eligible in the given state and draws the
\* given random value for it.
TickOn(i, state, randomValue) ==
    /\ i \in EligibleIdx
    /\ health.servers[i].state = state
    /\ \E draws \in [EligibleIdx -> Draws] :
          draws[i] = randomValue /\ Tick(draws)

TickNext ==
    \/ \E dt \in TimeSteps : Elapse(dt)
    \/ \E draws \in [EligibleIdx -> Draws] : Tick(draws)

\* Time passes, ticks keep coming, and the random draws are fair: a record
\* that is found in a state again and again draws, in that state, a value
\* under the recovery thresholds and a value over the failure thresholds
\* again and again.
TickFairness ==
    /\ WF_vars(Elapse(DwellSeconds))
    /\ \A i \in 1..Cardinality(HealthIds) :
          /\ WF_vars(TickOn(i, "HEALTHY", LowDraw))
          /\ WF_vars(TickOn(i, "OFFLINE", LowDraw))
          /\ SF_vars(TickOn(i, "DEGRADED", LowDraw))
          /\ SF_vars(TickOn(i, "DEGRADED", HighDraw))
          /\ SF_vars(TickOn(i, "CRITICAL", LowDraw))
          /\ SF_vars(TickOn(i, "CRITICAL", HighDraw))

TickSpec == TickInit /\ [][TickNext]_vars /\ TickFairness

TypeOK ==
    /\ \A i \in 1..Len(servers) : servers[i].currentLoad >= 0
    /\ currentAlgorithm \in Algorithms

\* ------------------------------------------------------------ properties
Ids(svs) == {svs[i].id : i \in 1..Len(svs)}

OnlineCount(svs) == Cardinality({i \in 1..Len(svs) : svs[i].online})

Loads(svs) == [i \in 1..Len(svs) |-> svs[i].currentLoad]

\* Increase of the total load over the last operation.
TotalDelta == getTotalLoad(servers) - getTotalLoad(last.pre)

RECURSIVE SumOnlineCapacity(_, _)
SumOnlineCapacity(svs, i) ==
    IF i > Len(svs) THEN 0
    ELSE (IF svs[i].online THEN svs[i].capacity ELSE 0)
         + SumOnlineCapacity(svs, i + 1)

\* Room left on the online servers, counting a server that already holds
\* more than its capacity as having none.
RECURSIVE SumHeadroom(_, _)
SumHeadroom(svs, i) ==
    IF i > Len(svs) THEN 0
    ELSE (IF svs[i].online /\ svs[i].capacity > svs[i].currentLoad
          THEN svs[i].capacity - svs[i].currentLoad ELSE 0)
         + SumHeadroom(svs, i + 1)

\* ------------------------------------------------ monolithic program
\* distributeLoadOptimization of the single-file program, whose servers
\* carry a capacity and a currentLoad held as doubles.  The doubles are
\* exact rationals here: with C the total capacity and T the total load,
\* loadDifferences[i] is DiffNum(i) / C, and the load of server i on return
\* is the fraction num / den.
SumCapacity(svs) == SumOnlineCapacity([i \in 1..Len(svs) |->
                                          [svs[i] EXCEPT !.online = TRUE]], 1)

DiffNum(svs, i, newLoad) ==
    (getTotalLoad(svs) + newLoad) * svs[i].capacity
        - svs[i].currentLoad * SumCapacity(svs)

RECURSIVE SumPositiveDiff(_, _, _)
SumPositiveDiff(svs, i, newLoad) ==
    IF i > Len(svs) THEN 0
    ELSE (IF DiffNum(svs, i, newLoad) > 0 THEN DiffNum(svs, i, newLoad)
          ELSE 0)
         + SumPositiveDiff(svs, i + 1, newLoad)

\* The index the utilization-ratio scan of the monolithic
\* distributeLoadLeastLoaded ends on: the first server of minimum
\* currentLoad / capacity.
LeastUtilizedIdx(svs) ==
    CHOOSE k \in 1..Len(svs) :
        /\ \A j \in 1..Len(svs) :
              svs[k].currentLoad * svs[j].capacity
                  <= svs[j].currentLoad * svs[k].capacity
        /\ \A j \in 1..(k - 1) :
              svs[j].currentLoad * svs[k].capacity
                  > svs[k].currentLoad * svs[j].capacity

distributeLoadOptimization(svs, newLoad) ==
    IF Len(svs) = 0 THEN <<>>
    ELSE LET totalPositiveDifference == SumPositiveDiff(svs, 1, newLoad)
         IN IF totalPositiveDifference > 0
            THEN [i \in 1..Len(svs) |->
                    IF DiffNum(svs, i, newLoad) > 0
                    THEN [num |-> svs[i].currentLoad
                                      * totalPositiveDifference
                                  + newLoad * DiffNum(svs, i, newLoad),
                          den |-> totalPositiveDifference]
                    ELSE [num |-> svs[i].currentLoad, den |-> 1]]
            ELSE [i \in 1..Len(svs) |->
                    IF i = LeastUtilizedIdx(svs)
                    THEN [num |-> svs[i].currentLoad + newLoad, den |-> 1]
                    ELSE [num |-> svs[i].currentLoad, den |-> 1]]

\* ------------------------------------- single-file program, state machine
\* The LoadBalancer class of the single-file program with its commands.
\* capacity and currentLoad are doubles; capacities are drawn from whole
\* numbers in the constructor's range [50, 200] and loads are exact
\* fractions.  currentServerIndex is 0-based as in the code, the servers
\* vector is 1-based.
MaxMonoOps == 4
MaxMonoServers == 3
MonoNumServers == {1, 2}
MonoCapacities == {50, 100, 200}
MonoLoads == {1, 10}
MonoServerLoads == {5, 20}
MonoFluctuations == {-2, 2}
MonoPercentage == 10
AlgorithmCount == 3

FracDiv(a, b) == Frac(a.num * b.den, a.den * b.num)

FracMax0(a) == IF a.num < 0 THEN Frac(0, 1) ELSE a

MonoServer(id, capacity) ==
    [id |-> id, capacity |-> capacity, currentLoad |-> Frac(0, 1)]

utilizationRatio(s) ==
    IF s.capacity > 0
    THEN Frac(s.currentLoad.num, s.currentLoad.den * s.capacity)
    ELSE Frac(0, 1)

monoTotalLoad(svs) ==
    LET RECURSIVE Total(_)
        Total(i) == IF i > Len(svs) THEN Frac(0, 1)
                    ELSE FracAdd(svs[i].currentLoad, Total(i + 1))
    IN Total(1)

monoTotalCapacity(svs) ==
    LET RECURSIVE Total(_)
        Total(i) == IF i > Len(svs) THEN 0
                    ELSE svs[i].capacity + Total(i + 1)
    IN Total(1)

\* Each distribution returns the set of objects the call can leave behind:
\* one object, except where the call writes past the end of the vector.
\* There the write either lands in storage the vector no longer counts as
\* an element (fault "stale": the live servers are untouched and the call
\* goes on) or stops the program (fault "crash").
monoDistributeLoadRoundRobin(b, newLoad) ==
    IF Len(b.servers) = 0 THEN {b}
    ELSE IF b.currentServerIndex < Len(b.servers)
    THEN {[b EXCEPT
             !.servers[b.currentServerIndex + 1].currentLoad =
                 FracAdd(@, newLoad),
             !.currentServerIndex =
                 (b.currentServerIndex + 1) % Len(b.servers)]}
    ELSE {[b EXCEPT
             !.currentServerIndex =
                 (b.currentServerIndex + 1) % Len(b.servers),
             !.fault = "stale"],
          [b EXCEPT !.fault = "crash"]}

\* leastLoadedIdx, 1-based: the scan replaces its candidate only on a
\* strictly smaller utilization ratio, so it ends on the first minimum.
monoLeastLoadedIdx(svs) ==
    CHOOSE k \in 1..Len(svs) :
        LET uk == utilizationRatio(svs[k])
        IN /\ \A j \in 1..Len(svs) :
                 ~FracLess(utilizationRatio(svs[j]), uk.num, uk.den)
           /\ \A j \in 1..(k - 1) :
                 FracLess(uk, utilizationRatio(svs[j]).num,
                          utilizationRatio(svs[j]).den)

monoDistributeLoadLeastLoaded(b, newLoad) ==
    IF Len(b.servers) = 0 THEN {b}
    ELSE {[b EXCEPT
             !.servers[monoLeastLoadedIdx(b.servers)].currentLoad =
                 FracAdd(@, newLoad)]}

monoLoadDifference(svs, i, newLoad) ==
    LET total == FracAdd(monoTotalLoad(svs), newLoad)
        targetUtilization ==
            Frac(total.num, total.den * monoTotalCapacity(svs))
        targetLoad == FracMul(targetUtilization, Frac(svs[i].capacity, 1))
    IN FracSub(targetLoad, svs[i].currentLoad)

monoOptimizationByCount(b, newLoad) ==
    IF Len(b.servers) = 0 THEN {b}
    ELSE {[b EXCEPT
             !.servers = [i \in 1..Len(b.servers) |->
                 [b.servers[i] EXCEPT
                    !.currentLoad =
                        FracAdd(@, Frac(newLoad.num,
                                        newLoad.den * Len(b.servers)))]]]}

monoDistributeLoadOptimization(b, newLoad) ==
    IF Len(b.servers) = 0 THEN {b}
    ELSE LET svs == b.servers
             diff(i) == monoLoadDifference(svs, i, newLoad)
             RECURSIVE Positive(_)
             Positive(i) ==
                 IF i > Len(svs) THEN Frac(0, 1)
                 ELSE IF diff(i).num > 0
                 THEN FracAdd(diff(i), Positive(i + 1))
                 ELSE Positive(i + 1)
             totalPositiveDifference == Positive(1)
         IN IF totalPositiveDifference.num > 0
            THEN {[b EXCEPT
                     !.servers = [i \in 1..Len(svs) |->
                         IF diff(i).num > 0
                         THEN [svs[i] EXCEPT
                                 !.currentLoad =
                                     FracAdd(@, FracMul(newLoad,
                                         FracDiv(diff(i),
                                             totalPositiveDifference)))]
                         ELSE svs[i]]]}
            ELSE monoDistributeLoadLeastLoaded(b, newLoad)

monoDistributeLoad(b, load) ==
    IF b.selectedAlgorithm = 1 THEN monoDistributeLoadLeastLoaded(b, load)
    ELSE IF b.selectedAlgorithm = 2
    THEN monoDistributeLoadOptimization(b, load)
    ELSE monoDistributeLoadRoundRobin(b, load)

monoAddServer(b, capacity) ==
    [b EXCEPT !.servers =
        Append(@, MonoServer(Len(b.servers) + 1, capacity))]

monoRemoveServer(b) ==
    IF Len(b.servers) = 0 THEN {b}
    ELSE LET remainingLoad == b.servers[Len(b.servers)].currentLoad
             popped == [b EXCEPT !.servers = SubSeq(@, 1, Len(@) - 1)]
         IN IF Len(popped.servers) # 0 /\ remainingLoad.num > 0
            THEN monoDistributeLoad(popped, remainingLoad)
            ELSE {popped}

rebalance(b) ==
    LET totalLoad == monoTotalLoad(b.servers)
        cleared == [b EXCEPT
                      !.servers = [i \in 1..Len(b.servers) |->
                          [b.servers[i] EXCEPT !.currentLoad = Frac(0, 1)]]]
    IN monoDistributeLoad(cleared, totalLoad)

switchAlgorithm(b) ==
    rebalance([b EXCEPT
                 !.selectedAlgorithm = (@ + 1) % AlgorithmCount])

monoIndexOf(svs, serverId) ==
    IF \E i \in 1..Len(svs) : svs[i].id = serverId
    THEN CHOOSE i \in 1..Len(svs) :
            /\ svs[i].id = serverId
            /\ \A j \in 1..(i - 1) : svs[j].id # serverId
    ELSE 0

monoAddLoadToServer(b, serverId, load) ==
    LET k == monoIndexOf(b.servers, serverId)
    IN IF k = 0 THEN {b}
       ELSE rebalance([b EXCEPT
                         !.servers[k].currentLoad = FracAdd(@, load)])

increaseTotalLoad(b, percentage) ==
    IF Len(b.servers) = 0 THEN {b}
    ELSE LET currentTotal == monoTotalLoad(b.servers)
             additionalLoad == FracMul(currentTotal, Frac(percentage, 100))
         IN monoDistributeLoad(b, additionalLoad)

\* With a total of 0 the quotient currentLoad / currentTotal is 0.0 / 0.0;
\* std::max(0.0, NaN) returns its first argument, so every load stays 0.
decreaseTotalLoad(b, percentage) ==
    IF Len(b.servers) = 0 THEN b
    ELSE LET currentTotal == monoTotalLoad(b.servers)
             reductionAmount == FracMul(currentTotal, Frac(percentage, 100))
         IN IF currentTotal.num = 0 THEN b
            ELSE [b EXCEPT
                    !.servers = [i \in 1..Len(b.servers) |->
                        [b.servers[i] EXCEPT
                           !.currentLoad =
                               FracMax0(FracSub(@,
                                   FracMul(reductionAmount,
                                       FracDiv(@, currentTotal))))]]]

\* The fluctuation run() applies after each command to one server drawn
\* at random.
fluctuate(b, randomServerId, fluctuation) ==
    [b EXCEPT !.servers[randomServerId + 1].currentLoad =
        FracMax0(FracAdd(@, Frac(fluctuation, 1)))]

MonoStep(op, load, serverId, outcomes) ==
    /\ opCount < budget
    /\ balancer.fault # "crash"
    /\ balancer' \in outcomes
    /\ mlast' = MonoRecord(op, balancer, load, serverId)
    /\ opCount' = opCount + 1
    /\ UNCHANGED <<servers, currentAlgorithm, nextServerId, last, budget,
                   loop, health, now, hlast, healthSimulator>>

DistributeLoad(load) ==
    MonoStep("distributeLoad", Frac(load, 1), 0,
             monoDistributeLoad(balancer, Frac(load, 1)))

MonoAddServer(capacity) ==
    /\ Len(balancer.servers) < MaxMonoServers
    /\ MonoStep("addServer", Frac(0, 1), Len(balancer.servers) + 1,
                {monoAddServer(balancer, capacity)})

MonoRemoveServer ==
    MonoStep("removeServer", Frac(0, 1), Len(balancer.servers),
             monoRemoveServer(balancer))

MonoAddLoadToServer(serverId, load) ==
    MonoStep("addLoadToServer", Frac(load, 1), serverId,
             monoAddLoadToServer(balancer, serverId, Frac(load, 1)))

Rebalance ==
    MonoStep("rebalance", monoTotalLoad(balancer.servers), 0,
             rebalance(balancer))

SwitchAlgorithm ==
    MonoStep("switchAlgorithm", monoTotalLoad(balancer.servers), 0,
             switchAlgorithm(balancer))

IncreaseTotalLoad ==
    MonoStep("increaseTotalLoad", Frac(MonoPercentage, 1), 0,
             increaseTotalLoad(balancer, MonoPercentage))

DecreaseTotalLoad ==
    MonoStep("decreaseTotalLoad", Frac(MonoPercentage, 1), 0,
             {decreaseTotalLoad(balancer, MonoPercentage)})

Fluctuate(randomServerId, fluctuation) ==
    /\ randomServerId < Len(balancer.servers)
    /\ MonoStep("fluctuate", Frac(fluctuation, 1), randomServerId,
                {fluctuate(balancer, randomServerId, fluctuation)})

\* The constructor: numServers servers with ids 1..numServers, each of a
\* capacity drawn at random and load 0; Round Robin selected, index 0.
MonoInit ==
    /\ \E n \in MonoNumServers : \E caps \in [1..n -> MonoCapacities] :
          balancer = MonoBalancer([i \in 1..n |-> MonoServer(i, caps[i])],
                                  0, 0, "none")
    /\ mlast = MonoRecord("construct", MonoBalancer(<<>>, 0, 0, "none"),
                          Frac(0, 1), 0)
    /\ servers = <<>>
    /\ currentAlgorithm = "ROUND_ROBIN"
    /\ nextServerId = 1
    /\ last = Record("none", <<>>, "ROUND_ROBIN", 0, 0, FALSE, 0, <<>>,
                     FALSE, {})
    /\ opCount = 0
    /\ budget = MaxMonoOps
    /\ loop = LoopState("idle", <<>>, 0, 0, <<>>, 0, FALSE)
    /\ health = NoSimulator
    /\ now = 0
    /\ hlast = HealthRecord("none", 0, FALSE, <<>>, <<>>, <<>>)
    /\ healthSimulator = FALSE

MonoNext ==
    \/ \E l \in MonoLoads : DistributeLoad(l)
    \/ \E c \in MonoCapacities : MonoAddServer(c)
    \/ MonoRemoveServer
    \/ \E id \in 1..MaxMonoServers : \E l \in MonoServerLoads :
          MonoAddLoadToServer(id, l)
    \/ Rebalance
    \/ SwitchAlgorithm
    \/ IncreaseTotalLoad
    \/ DecreaseTotalLoad
    \/ \E k \in 0..(MaxMonoServers - 1) : \E f \in MonoFluctuations :
          Fluctuate(k, f)

MonoSpec == MonoInit /\ [][MonoNext]_vars

\* C1: conservation in addSystemLoad -- under every policy and in every
\* registry state, the increase of the total load plus the amount left
\* undistributed equals the requested load amount.
C1_Conservation ==
    last.op = "addSystemLoad" =>
        TotalDelta + last.undistributed = last.loadAmount

\* C2: no fabrication under Weighted Optimization -- one call with load
\* amount L increases the total of all servers' currentLoad by at most L.
C2_NoFabrication ==
    (last.op = "addSystemLoad" /\ last.alg = "WEIGHTED_OPTIMIZATION") =>
        TotalDelta <= last.loadAmount

\* C3: Round Robin even split -- when the load amount is exactly divisible
\* by the number of online servers (at least one), every online server's
\* currentLoad increases by loadAmount / onlineCount and offline servers are
\* unchanged.
C3_EvenSplit ==
    (/\ last.op = "addSystemLoad"
     /\ last.alg = "ROUND_ROBIN"
     /\ OnlineCount(last.pre) >= 1
     /\ last.loadAmount % OnlineCount(last.pre) = 0) =>
        \A i \in 1..Len(servers) :
            servers[i].currentLoad - last.pre[i].currentLoad =
                IF last.pre[i].online
                THEN last.loadAmount \div OnlineCount(last.pre)
                ELSE 0

\* C4: Least Loaded capacity bound -- every assignment made by
\* distributeLoadLeastLoaded is at most the chosen server's available
\* capacity at that moment; a server at or below capacity before the call is
\* at or below capacity after it, and a server above capacity gets nothing.
C4_LeastLoadedBound ==
    (/\ last.alg = "LEAST_LOADED"
     /\ last.op \in {"addSystemLoad", "rebalanceLoads", "removeServer"}) =>
        /\ \A n \in 1..Len(last.assigns) :
               /\ last.assigns[n].amount <= last.assigns[n].avail
               /\ last.assigns[n].amount > 0
        /\ last.op = "addSystemLoad" =>
               \A i \in 1..Len(servers) :
                   /\ last.pre[i].currentLoad <= last.pre[i].capacity =>
                          servers[i].currentLoad <= servers[i].capacity
                   /\ last.pre[i].currentLoad > last.pre[i].capacity =>
                          servers[i].currentLoad = last.pre[i].currentLoad

\* A Least Loaded call that fills one server exactly to its capacity while
\* another server of the registry already holds more than its capacity.
C4_Witness ==
    /\ last.op = "addSystemLoad"
    /\ last.alg = "LEAST_LOADED"
    /\ \E i \in 1..Len(last.pre) :
           last.pre[i].online /\ last.pre[i].currentLoad > last.pre[i].capacity
    /\ \E n \in 1..Len(last.assigns) :
           /\ last.assigns[n].amount = last.assigns[n].avail
           /\ last.assigns[n].amount < last.loadAmount

\* C5: rebalance idempotence -- after rebalanceLoads, a second rebalanceLoads
\* under the unchanged policy leaves every server's currentLoad as the first
\* one left it.
C5_RebalanceIdempotent ==
    last.op = "rebalanceLoads" =>
        Loads(rebalanceLoads(servers, currentAlgorithm).servers)
            = Loads(servers)

\* C6: rebalance replays the whole prior load -- when the online servers'
\* capacity can hold the total, the total load after rebalanceLoads equals
\* the total before it, under every policy.
C6_RebalanceConserves ==
    (/\ last.op = "rebalanceLoads"
     /\ SumOnlineCapacity(last.pre, 1) >= getTotalLoad(last.pre)) =>
        getTotalLoad(servers) = getTotalLoad(last.pre)

\* C7: conservation across topology changes -- removing an existing server
\* that holds load, then adding a server of the same capacity, leaves the
\* total load equal to the total before the removal, provided the remaining
\* servers have room for the removed server's load.
C7_RemoveAddConserves ==
    (/\ last.op = "removeServer"
     /\ last.found
     /\ last.loadAmount > 0
     /\ SumHeadroom(RemoveAt(last.pre, IndexOf(last.pre, last.serverId)), 1)
            >= last.loadAmount) =>
        getTotalLoad(addServer(servers, nextServerId,
                     last.pre[IndexOf(last.pre, last.serverId)].capacity))
            = getTotalLoad(last.pre)

\* C8 as stated: removal ordering -- the captured load is re-injected while
\* the removed server is still a member of the registry.
C8_InjectBeforeDrop ==
    (last.op = "removeServer" /\ last.injected) =>
        last.serverId \in last.injectedInto

\* C8 amended: removeServer captures the server's load, drops the server,
\* and then re-injects the captured load through the active policy into the
\* remaining servers only -- the re-injection runs exactly when servers
\* remain and the captured load is positive, and the removed server is not a
\* member of the registry it runs on.
C8_InjectAfterDrop ==
    (last.op = "removeServer" /\ last.found) =>
        LET k == IndexOf(last.pre, last.serverId)
        IN /\ last.loadAmount = last.pre[k].currentLoad
           /\ last.injected <=> (Len(last.pre) > 1 /\ last.loadAmount > 0)
           /\ last.serverId \notin Ids(servers)
           /\ last.injected =>
                  /\ last.injectedInto = Ids(last.pre) \ {last.serverId}
                  /\ \A n \in 1..Len(last.assigns) :
                         last.assigns[n].id # last.serverId

\* A removal whose captured load was handed to the remaining servers.
C8_Witness ==
    /\ last.op = "removeServer"
    /\ last.injected
    /\ \E n \in 1..Len(last.assigns) : last.assigns[n].amount > 0

\* C9: Round Robin rotation cursor -- after a Round Robin distribution with
\* a nonzero remainder over at least two online servers, the next Round
\* Robin distribution with a nonzero remainder does not start its remainder
\* units at the same server.
C9_CursorAdvances ==
    (/\ last.op = "addSystemLoad"
     /\ last.alg = "ROUND_ROBIN"
     /\ OnlineCount(last.pre) >= 2
     /\ last.loadAmount % Len(last.pre) # 0) =>
        \A l \in LoadAmounts :
            l % Len(servers) # 0 =>
                distributeLoadRoundRobin(servers, l).assigns[1].id
                    # last.assigns[1].id

\* C10: no online server -- under every policy, when the registry is
\* non-empty and no server is online, addSystemLoad changes no server's
\* currentLoad and the whole load amount is undistributed.
C10_NoOnlineServer ==
    (/\ last.op = "addSystemLoad"
     /\ Len(last.pre) > 0
     /\ \A i \in 1..Len(last.pre) : ~last.pre[i].online) =>
        /\ servers = last.pre
        /\ last.undistributed = last.loadAmount

\* A positive load added under Weighted Optimization or Least Loaded to a
\* registry of at least two servers, all offline and one of them loaded.
C10_Witness ==
    /\ last.op = "addSystemLoad"
    /\ last.alg # "ROUND_ROBIN"
    /\ last.loadAmount > 0
    /\ Len(last.pre) >= 2
    /\ \A i \in 1..Len(last.pre) : ~last.pre[i].online
    /\ \E i \in 1..Len(last.pre) : last.pre[i].currentLoad > 0

\* Truncated proportional share of server i of registry svs for load
\* amount L: floor(L * effectiveCapacity_i / sum of effectiveCapacity).
FloorShare(svs, i, L) ==
    (getEffectiveCapacity(svs[i]) * L) \div SumEffective(svs, 1)

\* No online server's available capacity binds: every online server has
\* room for its truncated share and for one unit more.
NoCapacityBinds(svs, L) ==
    /\ SumEffective(svs, 1) > 0
    /\ \A i \in 1..Len(svs) :
          svs[i].online => FloorShare(svs, i, L) < getAvailableCapacity(svs[i])

RemainingHeadroom(svs, i, L) ==
    getAvailableCapacity(svs[i]) - FloorShare(svs, i, L)

\* C12: Weighted Optimization remainder order -- after flooring the
\* proportional shares, the leftover units go one at a time to the servers
\* in descending order of remaining headroom (a server that received a
\* leftover unit has at least the headroom of every online server that did
\* not), and the shares plus the leftover units sum to the requested
\* amount.
C12_RemainderOrder ==
    (/\ last.op = "addSystemLoad"
     /\ last.alg = "WEIGHTED_OPTIMIZATION"
     /\ NoCapacityBinds(last.pre, last.loadAmount)) =>
        LET pre == last.pre
            L == last.loadAmount
            delta(i) == servers[i].currentLoad - pre[i].currentLoad
            online == {i \in 1..Len(pre) : pre[i].online}
        IN /\ \A i, j \in online :
                 (/\ delta(i) = FloorShare(pre, i, L) + 1
                  /\ delta(j) = FloorShare(pre, j, L)) =>
                     RemainingHeadroom(pre, i, L)
                         >= RemainingHeadroom(pre, j, L)
           /\ TotalDelta = L

\* C13: Weighted Optimization formulation equivalence -- from the same
\* servers (all online at full performance) and the same load amount, the
\* load each server holds after distributeLoadWeightedOptimization differs
\* by at most one unit from the load it holds after the monolithic
\* distributeLoadOptimization.
C13_FormulationEquivalence ==
    (/\ last.op = "addSystemLoad"
     /\ last.alg = "WEIGHTED_OPTIMIZATION"
     /\ \A i \in 1..Len(last.pre) :
           /\ last.pre[i].online
           /\ last.pre[i].performanceMultiplier = PmScale) =>
        LET mono == distributeLoadOptimization(last.pre, last.loadAmount)
        IN \A i \in 1..Len(last.pre) :
              /\ servers[i].currentLoad * mono[i].den - mono[i].num
                    <= mono[i].den
              /\ mono[i].num - servers[i].currentLoad * mono[i].den
                    <= mono[i].den

\* The registry as it stands after the first n assignments of a logged
\* distribution that started from svs.
RECURSIVE Replay(_, _, _)
Replay(svs, assigns, n) ==
    IF n = 0 THEN svs
    ELSE LET r == Replay(svs, assigns, n - 1)
         IN [i \in 1..Len(r) |->
               IF r[i].id = assigns[n].id
               THEN [r[i] EXCEPT !.currentLoad = @ + assigns[n].amount]
               ELSE r[i]]

RECURSIVE SumAmounts(_, _)
SumAmounts(assigns, n) ==
    IF n = 0 THEN 0 ELSE assigns[n].amount + SumAmounts(assigns, n - 1)

\* C14: Least Loaded selection -- each iteration of
\* distributeLoadLeastLoaded picks the online server of greatest
\* availableCapacity, the lowest id among equals, and assigns it
\* min(remainingLoad, availableCapacity); the registry may have been
\* reshaped by addServer and removeServer beforehand.
C14_LeastLoadedSelection ==
    (last.op = "addSystemLoad" /\ last.alg = "LEAST_LOADED") =>
        /\ Loads(servers)
              = Loads(Replay(last.pre, last.assigns, Len(last.assigns)))
        /\ \A n \in 1..Len(last.assigns) :
              LET reg == Replay(last.pre, last.assigns, n - 1)
                  k == IndexOf(reg, last.assigns[n].id)
                  remainingLoad == last.loadAmount
                                      - SumAmounts(last.assigns, n - 1)
              IN /\ k # 0
                 /\ reg[k].online
                 /\ \A j \in 1..Len(reg) :
                       reg[j].online =>
                          /\ getAvailableCapacity(reg[j])
                                <= getAvailableCapacity(reg[k])
                          /\ getAvailableCapacity(reg[j])
                                = getAvailableCapacity(reg[k])
                                => reg[k].id <= reg[j].id
                 /\ last.assigns[n].amount
                       = Min(remainingLoad, getAvailableCapacity(reg[k]))

\* A Least Loaded call on a registry from which server 1 was removed and
\* to which a server was added, whose first pick is one of several online
\* servers of equal greatest availability.
C14_Witness ==
    /\ last.op = "addSystemLoad"
    /\ last.alg = "LEAST_LOADED"
    /\ 1 \notin Ids(last.pre)
    /\ InitialServers + 1 \in Ids(last.pre)
    /\ Len(last.assigns) >= 1
    /\ \E i, j \in 1..Len(last.pre) :
          /\ i # j
          /\ last.pre[i].id = last.assigns[1].id
          /\ last.pre[j].online
          /\ getAvailableCapacity(last.pre[j])
                = getAvailableCapacity(last.pre[i])

\* No online server of svs has positive available capacity.
NoHeadroom(svs) ==
    \A i \in 1..Len(svs) :
        svs[i].online => getAvailableCapacity(svs[i]) <= 0

\* C15 as stated: Least Loaded and Weighted Optimization always terminate,
\* and on return either the remaining (undistributed) load is 0 or no
\* online server has positive available capacity.
C15_TerminatesExhausted ==
    /\ <>(loop.pc = "done")
    /\ [](loop.pc = "done" =>
            (loop.remainingLoad = 0 \/ NoHeadroom(servers)))

\* C15, amended: Least Loaded and Weighted Optimization always terminate,
\* and on return either the remaining (undistributed) load is 0, or no
\* online server has positive available capacity, or the policy is
\* Weighted Optimization and the online servers' total effective capacity
\* is zero (the call returns before its loop and distributes nothing).
C15_TerminatesExhaustedOrStopped ==
    /\ <>(loop.pc = "done")
    /\ [](loop.pc = "done" =>
            \/ loop.remainingLoad = 0
            \/ NoHeadroom(servers)
            \/ /\ currentAlgorithm = "WEIGHTED_OPTIMIZATION"
               /\ SumEffective(servers, 1) <= 0
               /\ servers = loop.entry)

\* A Weighted Optimization call that went through its remainder loop more
\* than once and returned with load left over because the online servers
\* were filled.
C15_Witness ==
    /\ loop.pc = "done"
    /\ currentAlgorithm = "WEIGHTED_OPTIMIZATION"
    /\ loop.remainingLoad > 0
    /\ servers # loop.entry
    /\ NoHeadroom(servers)
    /\ \E i \in 1..Len(servers) :
          servers[i].online /\ loop.idealLoads[i] >= 2

\* C17: non-negative load -- in every reachable state of the registry,
\* after any sequence of addSystemLoad, addLoadToServer, rebalanceLoads,
\* addServer and removeServer under any policy, every server's currentLoad
\* is >= 0.
C17_NonNegativeLoad ==
    \A i \in 1..Len(servers) : servers[i].currentLoad >= 0

\* addLoadToServer took more from an online server than it held, and the
\* server is left at 0.
C17_Witness ==
    /\ last.op = "addLoadToServer"
    /\ last.found
    /\ \E i \in 1..Len(last.pre) :
          /\ last.pre[i].id = last.serverId
          /\ last.pre[i].online
          /\ last.pre[i].currentLoad + last.loadAmount < 0
          /\ servers[i].currentLoad = 0

\* A step that is a balancer call by an id the registry does not hold.
InvalidBalancerCall ==
    /\ opCount' = opCount + 1
    /\ hlast' = hlast
    /\ last'.op \in {"removeServer", "addLoadToServer"}
    /\ last'.pre = servers
    /\ IndexOf(servers, last'.serverId) = 0

\* A step that is a simulator call by an id the simulator holds no record
\* of.
InvalidSimulatorCall ==
    /\ opCount' = opCount + 1
    /\ last' = last
    /\ hlast'.op \in {"setServerState", "degradeServerPerformance",
                      "recoverServer", "simulateHighLoad"}
    /\ hlast'.pre = health.servers
    /\ HealthIndexOf(health.servers, hlast'.serverId) = 0

\* What a call by an unknown id must leave alone.
InvalidCallIsNoOp ==
    /\ InvalidBalancerCall =>
          (/\ servers' = servers
           /\ health' = health
           /\ (last'.op = "removeServer" => ~last'.found))
    /\ InvalidSimulatorCall =>
          (/\ servers' = servers
           /\ health' = health
           /\ hlast'.calls = <<>>
           /\ ~hlast'.found)

\* C16: an invalid server reference is a no-op -- removeServer,
\* addLoadToServer, setServerState, degradeServerPerformance, recoverServer
\* and simulateHighLoad called with an id that does not exist (never added,
\* or already removed) leave every server and every health record as it
\* was and fire no callback, and removeServer returns false.
C16_InvalidReferenceNoOp == [][InvalidCallIsNoOp]_vars

\* removeServer has been called for a server already removed, and the
\* simulator, with a callback set and a record on file, has been called
\* for an id whose record was removed.
C16_Witness ==
    /\ last.op = "removeServer"
    /\ ~last.found
    /\ last.serverId <= InitialServers
    /\ hlast.op \in {"setServerState", "degradeServerPerformance",
                     "recoverServer", "simulateHighLoad"}
    /\ ~hlast.found
    /\ hlast.calls = <<>>
    /\ health.stateChangeCallback \/ health.performanceUpdateCallback
    /\ health.servers = hlast.pre

\* C18: health state / multiplier consistency -- after any sequence of
\* updateServerStates ticks and fault injections, every health record has
\* performanceMultiplier in [0,1], and its state agrees with the
\* thresholds: Offline iff the multiplier is 0, Critical implies 0.1 <=
\* multiplier < 0.5, Degraded implies 0.5 <= multiplier < 0.9, Healthy
\* implies multiplier >= 0.9.
C18_StateMultiplierConsistent ==
    \A i \in 1..Len(health.servers) :
        LET sh == health.servers[i]
            m == sh.performanceMultiplier
        IN /\ m.num >= 0
           /\ m.num <= m.den
           /\ (sh.state = "OFFLINE") <=> (m.num = 0)
           /\ sh.state = "CRITICAL" =>
                 (~FracLess(m, 1, 10) /\ FracLess(m, 5, 10))
           /\ sh.state = "DEGRADED" =>
                 (~FracLess(m, 5, 10) /\ FracLess(m, 9, 10))
           /\ sh.state = "HEALTHY" => ~FracLess(m, 9, 10)

\* A record that a tick had brought from Critical up to Degraded at 0.6 is
\* pushed below 0.5 by a degradation and is Critical again.
C18_Witness ==
    /\ hlast.op \in {"degradeServerPerformance", "simulateHighLoad"}
    /\ hlast.found
    /\ \E i \in 1..Len(health.servers) :
          /\ hlast.pre[i].serverId = hlast.serverId
          /\ hlast.pre[i].state = "DEGRADED"
          /\ hlast.pre[i].performanceMultiplier = Frac(6, 10)
          /\ health.servers[i].state = "CRITICAL"
          /\ FracLess(health.servers[i].performanceMultiplier, 5, 10)
          /\ health.servers[i].performanceMultiplier # Frac(4, 10)

\* The transition table: from-state, to-state, healthScore in tenths,
\* performanceMultiplier.
EdgeTable ==
    {<<"HEALTHY", "DEGRADED", 7, Frac(7, 10)>>,
     <<"DEGRADED", "HEALTHY", 10, Frac(10, 10)>>,
     <<"DEGRADED", "CRITICAL", 3, Frac(4, 10)>>,
     <<"CRITICAL", "DEGRADED", 6, Frac(6, 10)>>,
     <<"CRITICAL", "OFFLINE", 0, Frac(0, 10)>>,
     <<"OFFLINE", "CRITICAL", 2, Frac(3, 10)>>}

\* C19: tick transitions follow the table -- one updateServerStates tick
\* changes a record's state only along the edges Healthy->Degraded,
\* Degraded->Healthy, Degraded->Critical, Critical->Degraded,
\* Critical->Offline, Offline->Critical, and on each edge sets
\* (healthScore, performanceMultiplier) to (0.7,0.7), (1.0,1.0), (0.3,0.4),
\* (0.6,0.6), (0.0,0.0), (0.2,0.3) respectively; a record whose state does
\* not change is left as it was.
C19_TickFollowsTable ==
    hlast.op = "updateServerStates" =>
        /\ Len(health.servers) = Len(hlast.pre)
        /\ \A i \in 1..Len(hlast.pre) :
              \/ health.servers[i] = hlast.pre[i]
              \/ /\ <<hlast.pre[i].state, health.servers[i].state,
                       health.servers[i].healthScore,
                       health.servers[i].performanceMultiplier>>
                        \in EdgeTable
                 /\ Eligible(hlast.pre[i], now)

\* One tick took one record from Critical to Offline and another from
\* Offline to Critical.
C19_Witness ==
    /\ hlast.op = "updateServerStates"
    /\ \E i, j \in 1..Len(hlast.pre) :
          /\ hlast.pre[i].state = "CRITICAL"
          /\ health.servers[i].state = "OFFLINE"
          /\ health.servers[i].healthScore = 0
          /\ health.servers[i].performanceMultiplier = Frac(0, 1)
          /\ hlast.pre[j].state = "OFFLINE"
          /\ health.servers[j].state = "CRITICAL"
          /\ health.servers[j].healthScore = 2
          /\ health.servers[j].performanceMultiplier = Frac(3, 10)

Level(state) ==
    CASE state = "HEALTHY" -> 0
      [] state = "DEGRADED" -> 1
      [] state = "CRITICAL" -> 2
      [] state = "OFFLINE" -> 3

\* The callbacks of one kind that a call invoked for one server.
CallsFor(calls, kind, serverId) ==
    {n \in 1..Len(calls) :
        calls[n].callback = kind /\ calls[n].serverId = serverId}

\* C20: at most one transition per server per tick -- within one
\* updateServerStates call every eligible record takes exactly one random
\* draw and no other record takes any; a record's state moves by at most
\* one level and each callback is invoked at most once for it; and when the
\* recovery condition of its state holds for the draw, recovery is the
\* transition that fires, whatever the degradation condition says.
C20_OneTransitionPerTick ==
    hlast.op = "updateServerStates" =>
        /\ DOMAIN hlast.draws
              = {i \in 1..Len(hlast.pre) : Eligible(hlast.pre[i], now)}
        /\ \A i \in 1..Len(hlast.pre) :
              LET b == hlast.pre[i]
                  a == health.servers[i]
              IN /\ Level(a.state) - Level(b.state) \in {-1, 0, 1}
                 /\ Cardinality(CallsFor(hlast.calls, "stateChange",
                                         b.serverId)) <= 1
                 /\ Cardinality(CallsFor(hlast.calls, "performanceUpdate",
                                         b.serverId)) <= 1
                 /\ ~Eligible(b, now) => a = b
                 /\ Eligible(b, now) =>
                       LET r == hlast.draws[i]
                       IN /\ (b.state = "DEGRADED"
                               /\ r < b.recoveryProbability)
                                => a.state = "HEALTHY"
                          /\ (b.state = "CRITICAL"
                               /\ r * 2 < b.recoveryProbability)
                                => a.state = "DEGRADED"
                          /\ (b.state = "OFFLINE"
                               /\ r * 3 < b.recoveryProbability)
                                => a.state = "CRITICAL"

\* A tick, with the state callback set, in which an Offline record drew a
\* value below every recovery threshold and moved up to Critical, one
\* level, with one notification.
C20_Witness ==
    /\ hlast.op = "updateServerStates"
    /\ health.stateChangeCallback
    /\ \E i \in DOMAIN hlast.draws :
          /\ hlast.pre[i].state = "OFFLINE"
          /\ hlast.draws[i] * 3 < hlast.pre[i].recoveryProbability
          /\ health.servers[i].state = "CRITICAL"
          /\ health.servers[i].lastStateChange = now
          /\ Cardinality(CallsFor(hlast.calls, "stateChange",
                                  hlast.pre[i].serverId)) = 1

\* C21: dwell-time hysteresis -- updateServerStates never changes the state,
\* healthScore, multiplier or timestamp of a health record whose
\* lastStateChange is less than 5 seconds before the tick, and fires no
\* callback for it; so a record that a tick changes had kept its previous
\* timestamp for at least 5 seconds, and two tick-driven transitions of one
\* server are at least 5 seconds apart.
C21_DwellHysteresis ==
    hlast.op = "updateServerStates" =>
        \A i \in 1..Len(hlast.pre) :
            LET b == hlast.pre[i]
                a == health.servers[i]
            IN /\ now - b.lastStateChange < DwellSeconds =>
                     /\ a = b
                     /\ CallsFor(hlast.calls, "stateChange", b.serverId) = {}
                     /\ CallsFor(hlast.calls, "performanceUpdate",
                                 b.serverId) = {}
               /\ a # b =>
                     a.lastStateChange - b.lastStateChange >= DwellSeconds

\* A tick, with the state callback set, that changed a record at least 5
\* seconds old and passed over a record 2 seconds old.
C21_Witness ==
    /\ hlast.op = "updateServerStates"
    /\ health.stateChangeCallback
    /\ \E i, j \in 1..Len(hlast.pre) :
          /\ now - hlast.pre[i].lastStateChange = 2
          /\ health.servers[i] = hlast.pre[i]
          /\ now - hlast.pre[j].lastStateChange >= DwellSeconds
          /\ health.servers[j].state # hlast.pre[j].state
          /\ health.servers[j].lastStateChange = now
          /\ CallsFor(hlast.calls, "stateChange", hlast.pre[j].serverId) # {}

\* The records whose state the last tick changed.
Transitioned ==
    {i \in 1..Len(hlast.pre) : health.servers[i].state # hlast.pre[i].state}

\* C22: transition notifications -- every state transition performed by
\* updateServerStates updates that record's lastStateChange and invokes,
\* exactly once each and in this order, the state-change callback with the
\* new state and the performance-update callback with the new multiplier;
\* a tick that performs no transition invokes neither callback.
C22_TransitionNotifies ==
    hlast.op = "updateServerStates" =>
        /\ \A i \in Transitioned :
              LET a == health.servers[i]
                  sc == CallsFor(hlast.calls, "stateChange", a.serverId)
                  pu == CallsFor(hlast.calls, "performanceUpdate",
                                 a.serverId)
              IN /\ a.lastStateChange = now
                 /\ Cardinality(sc) = 1
                 /\ Cardinality(pu) = 1
                 /\ \A n \in sc : hlast.calls[n].state = a.state
                 /\ \A n \in pu :
                       hlast.calls[n].multiplier = a.performanceMultiplier
                 /\ \A n \in sc : \A k \in pu : n < k
        /\ Transitioned = {} => hlast.calls = <<>>

\* C22 as it holds: the same with each callback invoked only when it has
\* been set (setStateChangeCallback, setPerformanceUpdateCallback); a
\* callback that was never set is not invoked, and no callback is invoked
\* for a record that made no transition.
C22_TransitionNotifiesWhenSet ==
    hlast.op = "updateServerStates" =>
        /\ \A i \in Transitioned :
              LET a == health.servers[i]
                  sc == CallsFor(hlast.calls, "stateChange", a.serverId)
                  pu == CallsFor(hlast.calls, "performanceUpdate",
                                 a.serverId)
              IN /\ a.lastStateChange = now
                 /\ Cardinality(sc)
                       = (IF health.stateChangeCallback THEN 1 ELSE 0)
                 /\ Cardinality(pu)
                       = (IF health.performanceUpdateCallback THEN 1 ELSE 0)
                 /\ \A n \in sc : hlast.calls[n].state = a.state
                 /\ \A n \in pu :
                       hlast.calls[n].multiplier = a.performanceMultiplier
                 /\ \A n \in sc : \A k \in pu : n < k
        /\ \A n \in 1..Len(hlast.calls) :
              \E i \in Transitioned :
                 hlast.pre[i].serverId = hlast.calls[n].serverId

\* A tick with both callbacks set in which one record made a transition
\* and its two notifications came in order.
C22_Witness ==
    /\ hlast.op = "updateServerStates"
    /\ health.stateChangeCallback
    /\ health.performanceUpdateCallback
    /\ Cardinality(Transitioned) = 1
    /\ Len(hlast.calls) = 2
    /\ hlast.calls[1].callback = "stateChange"
    /\ hlast.calls[2].callback = "performanceUpdate"
    /\ \A i \in Transitioned :
          /\ hlast.calls[1].state = health.servers[i].state
          /\ hlast.calls[2].multiplier
                = health.servers[i].performanceMultiplier
          /\ health.servers[i].lastStateChange = now

\* The registry server of a health record's id agrees with the record: it
\* is online unless the record is Offline and carries the record's
\* multiplier.
Mirrors(s, sh) ==
    /\ s.online = (sh.state # "OFFLINE")
    /\ s.performanceMultiplier * sh.performanceMultiplier.den
          = sh.performanceMultiplier.num * PmScale

\* A step, taken with a simulator attached, that changes the state of
\* health records leaves each of them mirrored by the registry server of
\* the same id.
MirrorsAfterChange ==
    (healthSimulator /\ health' # health) =>
        \A k \in 1..Len(health'.servers) :
            LET sh == health'.servers[k]
                j == HealthIndexOf(health.servers, sh.serverId)
                i == IndexOf(servers', sh.serverId)
            IN (j # 0 /\ i # 0 /\ health.servers[j].state # sh.state) =>
                  Mirrors(servers'[i], sh)

\* C23: the registry mirrors health -- with a health simulator attached to
\* the LoadBalancer, after any health state change of server id the
\* registry's Server.online is false exactly when the health state is
\* Offline, and Server.performanceMultiplier equals the health record's
\* performanceMultiplier.
C23_RegistryMirrorsHealth == [][MirrorsAfterChange]_vars

\* A step of LoadBalancer::addServer or of a successful removeServer taken
\* with a simulator attached.
AttachedAddServer ==
    /\ healthSimulator
    /\ last'.op = "addServer"
    /\ nextServerId' = nextServerId + 1

AttachedRemoveServer ==
    /\ healthSimulator
    /\ last'.op = "removeServer"
    /\ last'.found
    /\ opCount' = opCount + 1
    /\ hlast' = hlast

HealthRecordIds(hs) == {hs[k].serverId : k \in 1..Len(hs)}

RegistryIds(svs) == {svs[i].id : i \in 1..Len(svs)}

\* What addServer and removeServer owe the attached simulator.
SyncedAfterAddRemove ==
    /\ AttachedAddServer =>
          LET k == HealthIndexOf(health'.servers, nextServerId)
          IN k # 0 /\ health'.servers[k].state = "HEALTHY"
    /\ AttachedRemoveServer =>
          HealthIndexOf(health'.servers, last'.serverId) = 0
    /\ (AttachedAddServer \/ AttachedRemoveServer) =>
          HealthRecordIds(health'.servers) = RegistryIds(servers')

\* C24: registry / health-record synchronisation -- with a health simulator
\* attached, LoadBalancer::addServer creates a Healthy health record for
\* the new id and LoadBalancer::removeServer destroys it, so after any
\* sequence of addServer/removeServer the set of health-record ids equals
\* the set of registry server ids.
C24_RegistryHealthInSync == [][SyncedAfterAddRemove]_vars

\* C25: at most one health record per server id -- after any sequence of
\* ServerHealthSimulator::addServer and removeServer calls (repeated
\* addServer with the same id included), no two health records share a
\* serverId, and a duplicate addServer leaves the existing record's state,
\* healthScore and multiplier unchanged.
C25_OneRecordPerId ==
    /\ \A i, j \in 1..Len(health.servers) :
          i # j => health.servers[i].serverId # health.servers[j].serverId
    /\ (hlast.op = "addServer" /\ hlast.found) =>
          /\ Len(health.servers) = Len(hlast.pre)
          /\ \A i \in 1..Len(hlast.pre) :
                /\ health.servers[i].serverId = hlast.pre[i].serverId
                /\ health.servers[i].state = hlast.pre[i].state
                /\ health.servers[i].healthScore = hlast.pre[i].healthScore
                /\ health.servers[i].performanceMultiplier
                      = hlast.pre[i].performanceMultiplier

\* addServer was called again for an id whose record had left the Healthy
\* state, at a later time than the record's last change.
C25_Witness ==
    /\ hlast.op = "addServer"
    /\ hlast.found
    /\ \E i \in 1..Len(health.servers) :
          /\ health.servers[i].serverId = hlast.serverId
          /\ health.servers[i].state # "HEALTHY"
          /\ health.servers[i].lastStateChange < now
          /\ health.servers[i] = hlast.pre[i]

\* C26: degradeServerPerformance threshold derivation -- for a non-Offline
\* record with multiplier m and factor f (clamped to [0,1]), one call sets
\* the multiplier to m*f and the state to Offline (multiplier forced to 0)
\* if m*f < 0.1, Critical if m*f < 0.5, Degraded if m*f < 0.9, and leaves
\* the state unchanged otherwise; in particular factor 0.05 on a Healthy
\* server yields Offline in one call.
C26_DegradeThresholds ==
    (/\ hlast.op \in {"degradeServerPerformance", "simulateHighLoad"}
     /\ hlast.found) =>
        LET k == HealthIndexOf(hlast.pre, hlast.serverId)
            b == hlast.pre[k]
            a == health.servers[k]
            given == hlast.draws[1]
            f == IF given < 0 THEN 0
                 ELSE IF given > FactorScale THEN FactorScale ELSE given
            mf == FracMul(b.performanceMultiplier, Frac(f, FactorScale))
        IN b.state # "OFFLINE" =>
              IF FracLess(mf, 1, 10)
              THEN /\ a.state = "OFFLINE"
                   /\ a.performanceMultiplier.num = 0
              ELSE /\ a.performanceMultiplier = mf
                   /\ a.state = (IF FracLess(mf, 5, 10) THEN "CRITICAL"
                                 ELSE IF FracLess(mf, 9, 10) THEN "DEGRADED"
                                 ELSE b.state)

\* degradeServerPerformance(id, 0.05) was called on a Healthy record and
\* left it Offline with multiplier 0.
C26_Witness ==
    /\ hlast.op = "degradeServerPerformance"
    /\ hlast.found
    /\ hlast.draws = <<5>>
    /\ \E k \in 1..Len(hlast.pre) :
          /\ hlast.pre[k].serverId = hlast.serverId
          /\ hlast.pre[k].state = "HEALTHY"
          /\ health.servers[k].state = "OFFLINE"
          /\ health.servers[k].performanceMultiplier = Frac(0, 1)
          /\ health.servers[k].healthScore = 0

\* C27: simulateRandomFailure changes exactly one health record (none when
\* there are no records) -- the chosen server's state becomes Degraded when
\* the drawn severity is < 0.2, Critical when 0.2 <= severity < 0.7, and
\* Offline otherwise, regardless of its previous state and dwell time; all
\* other records are unchanged.
C27_RandomFailureOneRecord ==
    hlast.op = "simulateRandomFailure" =>
        IF Len(hlast.pre) = 0
        THEN health.servers = <<>> /\ hlast.calls = <<>>
        ELSE LET index == hlast.draws[1]
                 severity == hlast.draws[2]
             IN /\ Len(health.servers) = Len(hlast.pre)
                /\ health.servers[index].serverId
                      = hlast.pre[index].serverId
                /\ health.servers[index].state
                      = (IF severity * 10 < 2 * ProbScale THEN "DEGRADED"
                         ELSE IF severity * 10 < 7 * ProbScale
                         THEN "CRITICAL"
                         ELSE "OFFLINE")
                /\ health.servers[index].lastStateChange = now
                /\ \A k \in 1..Len(hlast.pre) :
                      k # index => health.servers[k] = hlast.pre[k]

\* With two records on file, the failure picked an Offline record that had
\* changed less than 5 seconds before and, on a severity of exactly 0.2,
\* made it Critical; the other record stayed as it was.
C27_Witness ==
    /\ hlast.op = "simulateRandomFailure"
    /\ Len(hlast.pre) = 2
    /\ hlast.draws[2] = 200
    /\ LET index == hlast.draws[1]
       IN /\ hlast.pre[index].state = "OFFLINE"
          /\ now - hlast.pre[index].lastStateChange < DwellSeconds
          /\ health.servers[index].state = "CRITICAL"
          /\ health.servers[3 - index] = hlast.pre[3 - index]

\* C28: consistent snapshot within one distribution pass -- if health
\* updates (Server::setOnline / setPerformanceMultiplier driven by the
\* health simulator) run concurrently with a distribute call, no server is
\* observed online by one check and offline by another check inside the
\* same distribution call, i.e. the call runs under an exclusive hold on
\* the registry.
C28_ConsistentSnapshot ==
    \A i \in 1..Len(servers) :
        ~(<<i, TRUE>> \in loop.seen /\ <<i, FALSE>> \in loop.seen)

\* C29: degenerate configurations never divide by zero -- with zero
\* servers, or with servers whose total (online) capacity is zero, every
\* distribution policy, rebalanceLoads, getLoadPercentage,
\* calculateLoadVariance and the system-utilization computation complete
\* with ratio/percentage results equal to 0 and leave all server loads
\* unchanged.  The ratios meant are those whose divisor is zero: the load
\* percentage of a server of capacity 0, the variance, and the system
\* load percentage.
C29_DegenerateConfigurations ==
    (/\ last.op \in {"addSystemLoad", "rebalanceLoads", "visualizeLoads"}
     /\ getTotalCapacity(last.pre) = 0) =>
        /\ Len(servers) = Len(last.pre)
        /\ \A i \in 1..Len(servers) :
              servers[i].currentLoad = last.pre[i].currentLoad
        /\ last.op = "visualizeLoads" =>
              /\ \A i \in 1..Len(servers) :
                    servers[i].capacity = 0 => last.percentages[i].num = 0
              /\ last.variance.num = 0
              /\ last.systemLoadPercentage.num = 0

\* A step keeps the ids of the registry pairwise distinct and below the
\* counter, never lowers the counter, and gives a server that enters the
\* registry the counter's value, which no server has had before.
IdsAssignedInOrder ==
    /\ nextServerId' >= nextServerId
    /\ \A i, j \in 1..Len(servers') :
          i # j => servers'[i].id # servers'[j].id
    /\ \A i \in 1..Len(servers') : servers'[i].id < nextServerId'
    /\ \A i \in 1..Len(servers') :
          servers'[i].id \notin RegistryIds(servers) =>
             /\ servers'[i].id = nextServerId
             /\ nextServerId' = nextServerId + 1
             /\ \A k \in 1..Len(servers) : servers[k].id < servers'[i].id

\* C30: server ids are unique and monotonically assigned -- after any
\* sequence of addServer and removeServer calls on the LoadBalancer, no two
\* registry servers share an id, each newly added server's id is strictly
\* greater than every id assigned before it, and the id of a removed server
\* is never assigned again.
C30_IdsUniqueMonotonic ==
    /\ [](\A i, j \in 1..Len(servers) :
             i < j => servers[i].id < servers[j].id)
    /\ [](\A i \in 1..Len(servers) : servers[i].id < nextServerId)
    /\ [][IdsAssignedInOrder]_vars

\* A server was added after a server of the initial three had been
\* removed: it got id 4 or above and the removed id stays unused.
C30_Witness ==
    /\ last.op = "addServer"
    /\ servers[Len(servers)].id = last.serverId
    /\ last.serverId > InitialServers
    /\ \E r \in 1..InitialServers :
          /\ r \notin RegistryIds(servers)
          /\ r \notin RegistryIds(last.pre)
    /\ Len(servers) >= InitialServers

\* C31: rebalance determinism in the single-file program -- with the policy
\* and the total load unchanged, the loads a rebalance leaves depend only on
\* the policy, the total load and the capacities: they are the loads the
\* same rebalance leaves when started with the rotation index at 0, and
\* rebalancing once more leaves every server's load as it is.
C31_RebalanceDeterministic ==
    (mlast.op = "rebalance" /\ balancer.fault = "none") =>
        /\ balancer.servers \in
              {x.servers :
                 x \in rebalance([mlast.pre EXCEPT
                                    !.currentServerIndex = 0])}
        /\ \A again \in rebalance(balancer) :
              again.fault = "none" => again.servers = balancer.servers

\* After a rebalance of the single-file program: the call just made was
\* rebalance, or switchAlgorithm, which ends in one.
MonoRebalanced ==
    /\ mlast.op \in {"rebalance", "switchAlgorithm"}
    /\ balancer.fault = "none"

C37_CursorInRange ==
    /\ balancer.fault = "none"
    /\ Len(balancer.servers) > 0 =>
          /\ 0 <= balancer.currentServerIndex
          /\ balancer.currentServerIndex < Len(balancer.servers)

\* C33: offline servers never receive load -- under every policy and for
\* every load amount addSystemLoad leaves the currentLoad of every server
\* that is offline as it was, and addLoadToServer addressed to an offline
\* server changes no server's load.
C33_OfflineNeverLoaded ==
    /\ last.op = "addSystemLoad" =>
          \A i \in 1..Len(last.pre) :
              ~last.pre[i].online =>
                  servers[i].currentLoad = last.pre[i].currentLoad
    /\ (/\ last.op = "addLoadToServer"
        /\ last.found
        /\ ~last.pre[IndexOf(last.pre, last.serverId)].online) =>
          Loads(servers) = Loads(last.pre)

\* C33 witness: addSystemLoad has placed load on an online server while an
\* offline server holding load of its own stood in the registry.
C33_Witness ==
    /\ last.op = "addSystemLoad"
    /\ last.loadAmount > 0
    /\ \E i \in 1..Len(last.pre) :
          ~last.pre[i].online /\ last.pre[i].currentLoad > 0
    /\ \E j \in 1..Len(last.pre) :
          servers[j].currentLoad > last.pre[j].currentLoad

\* C34: addLoadToServer on an existing online server, asked to add a load
\* amount that is not negative, raises that server's currentLoad by exactly
\* min(loadAmount, availableCapacity), never lowers it, and leaves every
\* other server's load as it was -- in every reachable state, a server
\* loaded beyond its capacity included.
C34_AddLoadToServerExact ==
    (/\ last.op = "addLoadToServer"
     /\ last.found
     /\ last.loadAmount >= 0
     /\ last.pre[IndexOf(last.pre, last.serverId)].online) =>
        LET k == IndexOf(last.pre, last.serverId)
        IN /\ servers[k].currentLoad - last.pre[k].currentLoad
                 = Min(last.loadAmount, getAvailableCapacity(last.pre[k]))
           /\ servers[k].currentLoad >= last.pre[k].currentLoad
           /\ \A i \in 1..Len(servers) :
                 i # k => servers[i].currentLoad = last.pre[i].currentLoad

\* A server that the last operation took from a load within its capacity to
\* a load above it.
PushedAboveCapacity ==
    \E i \in 1..Len(servers) : \E j \in 1..Len(last.pre) :
        /\ servers[i].id = last.pre[j].id
        /\ last.pre[j].currentLoad <= last.pre[j].capacity
        /\ servers[i].currentLoad > servers[i].capacity

\* C35: capacity respected by the capacity-aware operations -- neither
\* distributeLoadWeightedOptimization nor addLoadToServer leaves a server
\* whose currentLoad was within its capacity with a currentLoad above it,
\* and whenever an operation does push a server above its capacity it is a
\* distribution made by Round Robin.
C35_CapacityRespected ==
    /\ (last.op = "addSystemLoad" /\ last.alg = "WEIGHTED_OPTIMIZATION") =>
          ~PushedAboveCapacity
    /\ last.op = "addLoadToServer" => ~PushedAboveCapacity
    /\ PushedAboveCapacity =>
          /\ last.alg = "ROUND_ROBIN"
          /\ last.op \in {"addSystemLoad", "rebalanceLoads", "removeServer"}

\* C35 witness: Weighted Optimization was asked for more than the servers
\* could take, filled a server that had room exactly to its capacity and
\* left the rest undistributed.
C35_Witness ==
    /\ last.op = "addSystemLoad"
    /\ last.alg = "WEIGHTED_OPTIMIZATION"
    /\ last.undistributed > 0
    /\ \E i \in 1..Len(servers) :
          /\ last.pre[i].currentLoad < last.pre[i].capacity
          /\ servers[i].currentLoad = servers[i].capacity

\* C36: Round Robin per-call fairness -- within one call of
\* distributeLoadRoundRobin the load increments received by any two online
\* servers differ by at most 1.
C36_RoundRobinFairness ==
    (last.op = "addSystemLoad" /\ last.alg = "ROUND_ROBIN") =>
        \A i, j \in 1..Len(last.pre) :
            (last.pre[i].online /\ last.pre[j].online) =>
                (servers[i].currentLoad - last.pre[i].currentLoad)
                  - (servers[j].currentLoad - last.pre[j].currentLoad) <= 1

\* C36 witness: a Round Robin call has split an amount that the number of
\* servers does not divide, so that two online servers received different
\* increments.
C36_Witness ==
    /\ last.op = "addSystemLoad"
    /\ last.alg = "ROUND_ROBIN"
    /\ last.loadAmount % Len(last.pre) # 0
    /\ \E i, j \in 1..Len(last.pre) :
          /\ last.pre[i].online
          /\ last.pre[j].online
          /\ servers[i].currentLoad - last.pre[i].currentLoad
                > servers[j].currentLoad - last.pre[j].currentLoad

\* The record of the server the last simulator operation addressed, before
\* the operation and after it.
AddressedBefore == hlast.pre[HealthIndexOf(hlast.pre, hlast.serverId)]

AddressedAfter ==
    health.servers[HealthIndexOf(health.servers, hlast.serverId)]

\* a <= b for fractions, compared over their least common denominator.
FracLeq(a, b) ==
    LET l == (a.den \div GCD(a.den, b.den)) * b.den
    IN a.num * (l \div a.den) <= b.num * (l \div b.den)

\* C38: degradation never improves health -- for every record and every
\* factor, degradeServerPerformance and simulateHighLoad never raise
\* performanceMultiplier, never raise healthScore, and never move the state
\* to a less severe one (Healthy < Degraded < Critical < Offline).
C38_DegradationNeverImproves ==
    (/\ hlast.op \in {"degradeServerPerformance", "simulateHighLoad"}
     /\ hlast.found) =>
        /\ FracLeq(AddressedAfter.performanceMultiplier,
                   AddressedBefore.performanceMultiplier)
        /\ AddressedAfter.healthScore <= AddressedBefore.healthScore
        /\ Level(AddressedAfter.state) >= Level(AddressedBefore.state)

\* C39: no absorbing health state -- under ticks with the default
\* probabilities and fair random draws, a record that is Offline eventually
\* leaves Offline, and each of the four states is visited again and again,
\* so that every state is reached from every other, Healthy from Offline
\* included.
C39_NoAbsorbingState ==
    \A i \in 1..Cardinality(HealthIds) :
        /\ (health.servers[i].state = "OFFLINE")
              ~> (health.servers[i].state # "OFFLINE")
        /\ \A state \in States : []<>(health.servers[i].state = state)

\* C39 witness: a tick has moved a record out of Offline.
C39_Witness ==
    /\ hlast.op = "updateServerStates"
    /\ \E i \in 1..Len(hlast.pre) :
          /\ hlast.pre[i].state = "OFFLINE"
          /\ health.servers[i].state # "OFFLINE"

====
